---- MODULE Spec2Model ----
(***************************************************************************)
(* Model of the CopperMoon concurrency bridge: the global timer registry   *)
(* (coppermoon_core/src/event_loop.rs), the HTTP connection handler with   *)
(* its bounded request parser and the main Lua event loop                  *)
(* (coppermoon_std/src/http_server.rs).                                    *)
(*                                                                         *)
(* Specifications:                                                         *)
(*   Spec          the server: accept loop, connection tasks, main Lua     *)
(*                 event loop, timers                                      *)
(*   SpecTimers    the main Lua event loop and the timers alone            *)
(*   SpecConn      one connection, with any stream, and the loop           *)
(*   SpecDrain     SpecTimers with notifications posted more than once     *)
(*   SpecRegistry  sequences of calls of the registry API                  *)
(*   SpecRoutes    one request and any route table                         *)
(*   SpecHandler   one request and any handler                             *)
(*   SpecAlloc     threads calling next_timer_id concurrently              *)
(*   SpecLocks     drain_timers and the registry, one mutex operation at   *)
(*                 a time                                                  *)
(*   SpecListen    SpecRoutes with script code that writes the routes of   *)
(*                 the server while it listens                             *)
(*   SpecGone      Spec with connection tasks that go away while they      *)
(*                 wait for the reply                                      *)
(*   SpecThreads   threads calling the registry API concurrently, one      *)
(*                 mutex operation at a time; SpecRace with the calls of   *)
(*                 register, cancel, take and restore only                 *)
(*   SpecLive, SpecTimersLive, SpecTasksLive, SpecThreadsLive              *)
(*                 Spec, SpecTimers and SpecThreads with fair scheduling   *)
(***************************************************************************)
EXTENDS Integers, Sequences, FiniteSets, TLC

\* ------------------------------------------------------------------------
\* Bounds of the model
\* ------------------------------------------------------------------------

\* Timer ids the registry operations of SpecRegistry register.
MaxTimers == 3

\* Timers script code creates in SpecTimers.
MaxLoopTimers == 2

\* Timers script code creates in Spec.
MaxScriptTimers == 1

\* Connections the acceptor accepts in Spec.
MaxConns == 2

\* Readiness notifications the timer channel holds before the scheduling
\* tasks of the model stop posting.
MaxQueue == 2

\* Threads that call next_timer_id in SpecAlloc, and the calls they make in
\* all.
MaxThreads == 3
MaxAllocs == 4

\* Threads of SpecThreads, and the calls of the registry API each makes.
MaxApiThreads == 2
MaxCalls == 3
LiveCalls == 2

\* In SpecConn, how far below and above each limit of the parser the lengths
\* and counts of the streams go.
LimitSlack == 1

\* In SpecConn, how many header lines of a stream may repeat a header name.
MaxRepeats == 2

\* ------------------------------------------------------------------------
\* State
\* ------------------------------------------------------------------------

VARIABLES
    reg,            \* the registry's globals: TIMER_ID_COUNTER,
                    \* PENDING_TIMER_COUNT, TIMER_CALLBACKS, CANCELLED_TIMERS
    loan,           \* Interval entries a caller took out and has not yet
                    \* restored
    timer_queue,    \* TIMER_CHANNEL: the TimerEvent::Ready(id) in flight
    task,           \* each timer's scheduling task
    callers,        \* the threads inside next_timer_id, and the calls that
                    \* returned
    locks,          \* the owners of the mutexes of the registry and of the
                    \* timer channel, and the statement of the main thread
                    \* in drain_timers (SpecLocks)
    disp,           \* the main Lua thread inside server_listen: its position
                    \* and the locals of the step it is in
    running,        \* the Lua invocations executing now, each with the thread
                    \* it runs on
    route_handlers, \* the route table server_listen built
    acceptor,       \* the accept loop spawned by server_listen
    req_queue,      \* the mpsc channel of RequestMessage, by connection
    conn,           \* each connection's handler task
    reply,          \* each connection's oneshot reply channel
    written,        \* the responses written on each connection
    script,         \* what the Lua code of this run does: the number of
                    \* timers it creates (it cancels those ids only), and
                    \* its route handler
    hist            \* history of the timers, for the properties only

timerVars == <<reg, loan, timer_queue, task, callers, locks>>
serverVars == <<disp, running, route_handlers, acceptor, req_queue, script>>
connVars == <<conn, reply, written>>
vars == <<reg, loan, timer_queue, task, callers, locks, disp, running, route_handlers,
          acceptor, req_queue, conn, reply, written, script, hist>>

\* Ids the model talks about: the registered ones and one id beyond them,
\* which is never registered.
TimerIds == 1..(MaxTimers + 1)

\* TimerType, and the absence of an entry in a HashMap<u64, TimerCallback>.
NoCallback == "none"
TimerTypes == {"Timeout", "Interval"}

\* ------------------------------------------------------------------------
\* event_loop.rs: the registry operations, as functions of the globals
\* ------------------------------------------------------------------------

\* The globals before any call: counter at 1, count at 0, empty map and set.
RegistryInit ==
    [ next_id   |-> 1,
      pending   |-> 0,
      callbacks |-> [t \in TimerIds |-> NoCallback],
      cancelled |-> {} ]

\* PENDING_TIMER_COUNT is an AtomicUsize: fetch_sub wraps modulo 2^64. The
\* model keeps the representative of least absolute value, so a negative
\* number n stands for the usize 2^64 + n.
fetch_add(n) == n + 1
fetch_sub(n) == n - 1

\* Faulty variants of the operations below, which the properties must tell
\* from the operations: a cancel that records the id where the registry does
\* not look, a cancel that marks the id and leaves the entry, a restore that
\* forgets the count, a restore that does not look at the marker.
cancel_timer_elsewhere(R, id) == R

cancel_timer_mark_only(R, id) == [R EXCEPT !.cancelled = @ \cup {id}]

restore_timer_callback_no_count(R, id, callback) ==
    IF id \notin R.cancelled
    THEN [R EXCEPT !.callbacks[id] = callback]
    ELSE [R EXCEPT !.cancelled = @ \ {id}]

restore_timer_callback_unchecked(R, id, callback) ==
    [R EXCEPT !.callbacks[id] = callback]

\* Faulty variant of cancel_timer: the count goes down at every call.
cancel_timer_always_counts(R, id) ==
    [R EXCEPT !.cancelled = @ \cup {id},
              !.callbacks[id] = NoCallback,
              !.pending = fetch_sub(@)]

\* Faulty variant of next_timer_id: a load without the store.
next_timer_id_load(R) == [ id |-> R.next_id, reg |-> R ]

next_timer_id(R) == [ id |-> R.next_id, reg |-> [R EXCEPT !.next_id = @ + 1] ]

register_timer(R, id, callback) ==
    [R EXCEPT !.callbacks[id] = callback, !.pending = fetch_add(@)]

cancel_timer(R, id) ==
    LET marked == [R EXCEPT !.cancelled = @ \cup {id}]
    IN  IF marked.callbacks[id] # NoCallback
        THEN [marked EXCEPT !.callbacks[id] = NoCallback,
                            !.pending = fetch_sub(@)]
        ELSE marked

is_timer_cancelled(R, id) == id \in R.cancelled

\* load() > 0 on a usize: true for every value but zero.
has_pending_timers(R) == R.pending # 0

\* Faulty variant of take_timer_callback: a Timeout entry stays in the map.
take_timer_callback_keeps(R, id) ==
    LET cb == R.callbacks[id]
    IN  CASE cb = NoCallback -> [ cb |-> NoCallback, reg |-> R ]
          [] cb = "Timeout" ->
                [ cb  |-> cb,
                  reg |-> [R EXCEPT !.pending = fetch_sub(@),
                                    !.cancelled = @ \ {id}] ]
          [] cb = "Interval" ->
                [ cb  |-> cb,
                  reg |-> [R EXCEPT !.callbacks[id] = NoCallback] ]

take_timer_callback(R, id) ==
    LET cb == R.callbacks[id]
    IN  CASE cb = NoCallback -> [ cb |-> NoCallback, reg |-> R ]
          [] cb = "Timeout" ->
                [ cb  |-> cb,
                  reg |-> [R EXCEPT !.callbacks[id] = NoCallback,
                                    !.pending = fetch_sub(@),
                                    !.cancelled = @ \ {id}] ]
          [] cb = "Interval" ->
                [ cb  |-> cb,
                  reg |-> [R EXCEPT !.callbacks[id] = NoCallback] ]

restore_timer_callback(R, id, callback) ==
    IF ~is_timer_cancelled(R, id)
    THEN [R EXCEPT !.callbacks[id] = callback]
    ELSE [R EXCEPT !.pending = fetch_sub(@), !.cancelled = @ \ {id}]

\* ------------------------------------------------------------------------
\* http_server.rs: security limits
\* ------------------------------------------------------------------------

MAX_REQUEST_LINE == 8192
MAX_HEADER_LINE == 8192
MAX_HEADER_COUNT == 100
MAX_BODY_SIZE == 10485760

\* ------------------------------------------------------------------------
\* The byte stream of a connection, as the parser sees it
\* ------------------------------------------------------------------------

\* A stream is the lines the peer sent, in order, and what follows them:
\* "eof" (the peer closed its side) or "stall" (the peer sends nothing more
\* and keeps the connection open). A line is
\*   len    its length in bytes, the terminator included
\*   nl     whether it ends with '\n' (only the last line may lack it)
\*   utf8   whether its bytes are valid UTF-8
\*   toks   its whitespace-separated tokens (<<>> for a blank line)
\*   colon  whether the trimmed line holds a ':'
\*   key    the trimmed, lowercased text before the first ':'. 0 stands
\*          for "content-length", k > 0 for the header name number k
\*   val    the trimmed text after the first ':': a decimal integer that
\*          fits a usize ("int", n), a decimal integer beyond usize::MAX
\*          ("huge"), or anything else ("text")
ContentLengthKey == 0

IntVal(n) == [kind |-> "int", n |-> n]
HugeVal == [kind |-> "huge", n |-> 0]
TextVal == [kind |-> "text", n |-> 0]

RequestLine(toks, len, nl) ==
    [len |-> len, nl |-> nl, utf8 |-> TRUE, toks |-> toks,
     colon |-> FALSE, key |-> 1, val |-> TextVal]

HeaderLine(key, val, len) ==
    [len |-> len, nl |-> TRUE, utf8 |-> TRUE, toks |-> <<"h:", "v">>,
     colon |-> TRUE, key |-> key, val |-> val]

\* A header line without a colon.
BareLine(len) ==
    [len |-> len, nl |-> TRUE, utf8 |-> TRUE, toks |-> <<"bare">>,
     colon |-> FALSE, key |-> 1, val |-> TextVal]

BlankLine ==
    [len |-> 2, nl |-> TRUE, utf8 |-> TRUE, toks |-> <<>>,
     colon |-> FALSE, key |-> 1, val |-> TextVal]

\* n bytes of body, with no terminator.
BodyBytes(n) ==
    [len |-> n, nl |-> FALSE, utf8 |-> TRUE, toks |-> <<"body">>,
     colon |-> FALSE, key |-> 1, val |-> TextVal]

EmptyLine ==
    [len |-> 0, nl |-> FALSE, utf8 |-> TRUE, toks |-> <<>>,
     colon |-> FALSE, key |-> 1, val |-> TextVal]

RECURSIVE BytesFrom(_, _)
BytesFrom(lines, pos) ==
    IF pos > Len(lines) THEN 0 ELSE lines[pos].len + BytesFrom(lines, pos + 1)

\* ------------------------------------------------------------------------
\* http_server.rs: read_limited_line
\* ------------------------------------------------------------------------

MsgInvalidUtf8 == <<"stream", "did", "not", "contain", "valid", "UTF-8">>
MsgEarlyEof == <<"early", "eof">>

\* tokio's read_line returns once it has read a '\n' or met end of input, and
\* not before: on a stalled stream it stays pending. kind is
\*   "line"      Ok(Some(line))
\*   "too_long"  Ok(None)
\*   "io_error"  Err(e)
\*   "pending"   the future never completes
read_limited_line(s, pos, limit) ==
    IF pos > Len(s.lines)
    THEN IF s.tail = "eof"
         THEN [kind |-> "line", line |-> EmptyLine, pos |-> pos]
         ELSE [kind |-> "pending", line |-> EmptyLine, pos |-> pos]
    ELSE LET line == s.lines[pos]
         IN  CASE ~line.nl /\ s.tail = "stall" ->
                    [kind |-> "pending", line |-> EmptyLine, pos |-> pos]
               [] (line.nl \/ s.tail = "eof") /\ ~line.utf8 ->
                    [kind |-> "io_error", line |-> EmptyLine, pos |-> pos + 1]
               [] OTHER ->
                    IF line.len > limit
                    THEN [kind |-> "too_long", line |-> EmptyLine, pos |-> pos + 1]
                    ELSE [kind |-> "line", line |-> line, pos |-> pos + 1]

\* ------------------------------------------------------------------------
\* http_server.rs: parse_request
\* ------------------------------------------------------------------------

MsgRequestLineTooLong == <<"Request", "line", "too", "long">>
MsgBadRequestLine == <<"Bad", "request", "line">>
MsgHeaderTooLong == <<"Header", "too", "long">>
MsgTooManyHeaders == <<"Too", "many", "headers">>
MsgBodyTooLarge == <<"Body", "too", "large">>

\* str::to_uppercase on the method tokens the model uses.
to_uppercase(tok) ==
    CASE tok = "get" -> "GET"
      [] tok = "head" -> "HEAD"
      [] tok = "post" -> "POST"
      [] OTHER -> tok

\* value.parse::<usize>().unwrap_or(0)
parse_or_zero(val) == IF val.kind = "int" THEN val.n ELSE 0

NoRequest == [method |-> "", path |-> "", headers |-> {}, body_len |-> 0]

ParseErr(msg, alloc) ==
    [kind |-> "err", msg |-> msg, request |-> NoRequest, alloc |-> alloc]
ParsePending(alloc) ==
    [kind |-> "pending", msg |-> <<>>, request |-> NoRequest, alloc |-> alloc]
ParseOk(request, alloc) ==
    [kind |-> "ok", msg |-> <<>>, request |-> request, alloc |-> alloc]

\* The header loop `for _ in 0..MAX_HEADER_COUNT + 1`. Its iteration i, if
\* no earlier one left the loop, reads the line at position i + 1.
HeaderIterations == 1..(MAX_HEADER_COUNT + 1)

\* The keys of `headers` when iteration i starts: those of the lines with a
\* colon that the iterations before it read.
HeadersBefore(s, i) ==
    { s.lines[j].key : j \in {k \in 2..i : k <= Len(s.lines) /\ s.lines[k].colon} }

\* content_length when iteration i starts: the value of the last
\* content-length line read, parsed, or 0.
ContentLengthBefore(s, i) ==
    LET at == {k \in 2..i : /\ k <= Len(s.lines)
                            /\ s.lines[k].colon
                            /\ s.lines[k].key = ContentLengthKey}
    IN  IF at = {} THEN 0
        ELSE parse_or_zero(s.lines[CHOOSE k \in at : \A m \in at : m <= k].val)

\* Iteration i does not go on to the next one: the read does not return a
\* line, the line is blank, or `headers` is full.
LeavesLoop(s, i) ==
    LET r == read_limited_line(s, i + 1, MAX_HEADER_LINE)
    IN  \/ r.kind # "line"
        \/ r.line.toks = <<>>
        \/ Cardinality(HeadersBefore(s, i)) >= MAX_HEADER_COUNT

\* The header loop: kind is "done" (the loop ended, by its break or by
\* running out of iterations), "err" or "pending".
parse_headers(s) ==
    LET leaving == {i \in HeaderIterations : LeavesLoop(s, i)}
        last == IF leaving = {} THEN MAX_HEADER_COUNT + 2
                ELSE CHOOSE i \in leaving : \A k \in leaving : i <= k
        r == read_limited_line(s, last + 1, MAX_HEADER_LINE)
        stop(kind, msg, pos) ==
            [kind |-> kind, msg |-> msg, pos |-> pos,
             headers |-> HeadersBefore(s, last),
             content_length |-> ContentLengthBefore(s, last)]
    IN  CASE leaving = {} -> stop("done", <<>>, last + 1)
          [] r.kind = "pending" -> stop("pending", <<>>, r.pos)
          [] r.kind = "io_error" -> stop("err", MsgInvalidUtf8, r.pos)
          [] r.kind = "too_long" -> stop("err", MsgHeaderTooLong, r.pos)
          [] r.line.toks = <<>> -> stop("done", <<>>, r.pos)
          [] OTHER -> stop("err", MsgTooManyHeaders, r.pos)

\* The body, once the header loop has ended. alloc is the size of the buffer
\* vec![0u8; content_length] allocates, 0 when the line is not reached.
parse_body(s, method, path, h) ==
    LET n == h.content_length
        request(len) == [method |-> method, path |-> path,
                         headers |-> h.headers, body_len |-> len]
    IN  IF n > 0
        THEN IF n > MAX_BODY_SIZE
             THEN ParseErr(MsgBodyTooLarge, 0)
             ELSE IF BytesFrom(s.lines, h.pos) >= n
             THEN ParseOk(request(n), n)
             ELSE IF s.tail = "eof"
             THEN ParseErr(MsgEarlyEof, n)
             ELSE ParsePending(n)
        ELSE ParseOk(request(0), 0)

parse_request(s) ==
    LET r == read_limited_line(s, 1, MAX_REQUEST_LINE)
    IN  CASE r.kind = "pending" -> ParsePending(0)
          [] r.kind = "io_error" -> ParseErr(MsgInvalidUtf8, 0)
          [] r.kind = "too_long" -> ParseErr(MsgRequestLineTooLong, 0)
          [] OTHER ->
                IF Len(r.line.toks) < 2
                THEN ParseErr(MsgBadRequestLine, 0)
                ELSE LET h == parse_headers(s)
                     IN  CASE h.kind = "pending" -> ParsePending(0)
                           [] h.kind = "err" -> ParseErr(h.msg, 0)
                           [] OTHER ->
                                parse_body(s, to_uppercase(r.line.toks[1]),
                                           r.line.toks[2], h)

\* ------------------------------------------------------------------------
\* http_server.rs: responses
\* ------------------------------------------------------------------------

\* An HttpResponse. A body is a sequence of chunks of text; its length is the
\* number of chunks.
HttpResponse(status, body) ==
    [status |-> status, content_type |-> "text/plain", body |-> body,
     headers |-> <<>>]

\* build_response_bytes_ex: the bytes on the wire, as status line, framework
\* headers, extra headers and body.
build_response_bytes_ex(status, content_type, body, extra_headers, head_only) ==
    [status |-> status,
     content_type |-> content_type,
     content_length |-> Len(body),
     connection |-> "close",
     headers |-> extra_headers,
     body |-> IF head_only THEN <<>> ELSE body]

build_response_bytes(status, content_type, body, extra_headers) ==
    build_response_bytes_ex(status, content_type, body, extra_headers, FALSE)

\* ------------------------------------------------------------------------
\* http_server.rs: handle_connection_inner, the parse phase's outcome
\* ------------------------------------------------------------------------

\* err_msg.contains(pattern), on messages and patterns cut into words.
Contains(msg, pattern) ==
    \E i \in 1..Len(msg) :
        /\ i + Len(pattern) - 1 <= Len(msg)
        /\ SubSeq(msg, i, i + Len(pattern) - 1) = pattern

\* Faulty variant of error_status: its first pattern is "too long".
error_status_too_long(err_msg) ==
    IF Contains(err_msg, <<"too", "long">>)
    THEN [status |-> 414, msg |-> <<"URI", "Too", "Long">>]
    ELSE IF Contains(err_msg, <<"Too", "many", "headers">>)
    THEN [status |-> 431, msg |-> <<"Request", "Header", "Fields", "Too", "Large">>]
    ELSE IF Contains(err_msg, <<"Body", "too", "large">>)
    THEN [status |-> 413, msg |-> <<"Payload", "Too", "Large">>]
    ELSE [status |-> 400, msg |-> <<"Bad", "Request">>]

\* The (status, msg) chosen for a parse error.
error_status(err_msg) ==
    IF Contains(err_msg, <<"line", "too", "long">>)
    THEN [status |-> 414, msg |-> <<"URI", "Too", "Long">>]
    ELSE IF Contains(err_msg, <<"Header", "too", "long">>)
    THEN [status |-> 431, msg |-> <<"Request", "Header", "Fields", "Too", "Large">>]
    ELSE IF Contains(err_msg, <<"Too", "many", "headers">>)
    THEN [status |-> 431, msg |-> <<"Request", "Header", "Fields", "Too", "Large">>]
    ELSE IF Contains(err_msg, <<"Body", "too", "large">>)
    THEN [status |-> 413, msg |-> <<"Payload", "Too", "Large">>]
    ELSE [status |-> 400, msg |-> <<"Bad", "Request">>]

NoBytes == build_response_bytes(0, "", <<>>, <<>>)

\* Faulty variant of parse_outcome: only the timeout stops the request.
parse_outcome_errors_forwarded(result) ==
    IF result.kind = "pending"
    THEN [forward |-> FALSE,
          bytes |-> build_response_bytes(408, "text/plain",
                                         <<"Request", "Timeout">>, <<>>)]
    ELSE [forward |-> TRUE, bytes |-> NoBytes]

\* What the handler does with the result of timeout(30 s, parse_request):
\* forward the request, or write a response itself and return.
parse_outcome(result) ==
    CASE result.kind = "ok" ->
            [forward |-> TRUE, bytes |-> NoBytes]
      [] result.kind = "err" ->
            LET e == error_status(result.msg)
            IN  [forward |-> FALSE,
                 bytes |-> build_response_bytes(e.status, "text/plain", e.msg, <<>>)]
      [] result.kind = "pending" ->
            [forward |-> FALSE,
             bytes |-> build_response_bytes(408, "text/plain",
                                            <<"Request", "Timeout">>, <<>>)]

\* ------------------------------------------------------------------------
\* http_server.rs: dispatch_to_lua_inner, the route lookup
\* ------------------------------------------------------------------------

\* A route key "METHOD:path" is the pair <<method, path>>.
NoRoute == <<"", "">>

FirstOf(keys, table) ==
    LET hits == {i \in 1..Len(keys) : keys[i] \in table}
    IN  IF hits = {} THEN NoRoute
        ELSE keys[CHOOSE i \in hits : \A j \in hits : i <= j]

\* Faulty variant of find_handler: the any-method routes are looked up
\* before the method's wildcard.
find_handler_all_first(table, request) ==
    LET found == FirstOf(<< <<request.method, request.path>>,
                            <<"ALL", request.path>>,
                            <<request.method, "*">>,
                            <<"ALL", "*">> >>, table)
    IN  IF found = NoRoute /\ request.method = "HEAD"
        THEN FirstOf(<< <<"GET", request.path>>, <<"GET", "*">> >>, table)
        ELSE found

find_handler(table, request) ==
    LET found == FirstOf(<< <<request.method, request.path>>,
                            <<request.method, "*">>,
                            <<"ALL", request.path>>,
                            <<"ALL", "*">> >>, table)
    IN  IF found = NoRoute /\ request.method = "HEAD"
        THEN FirstOf(<< <<"GET", request.path>>, <<"GET", "*">> >>, table)
        ELSE found

NotFoundResponse == HttpResponse(404, <<"Not", "Found">>)

\* ------------------------------------------------------------------------
\* Lua values, and http_server.rs: value_to_json
\* ------------------------------------------------------------------------

\* An mlua::Value: its kind, and the text of a string (chunks of text, as
\* the bodies), the number of an integer or boolean (1 for true), the
\* entries of a table in the order pairs() gives them.
LuaValue(kind, s, n, t) == [kind |-> kind, s |-> s, n |-> n, t |-> t]
LuaNil == LuaValue("nil", <<>>, 0, <<>>)
LuaString(s) == LuaValue("string", s, 0, <<>>)
LuaInteger(n) == LuaValue("integer", <<>>, n, <<>>)
LuaBoolean(b) == LuaValue("boolean", <<>>, IF b THEN 1 ELSE 0, <<>>)
LuaTable(entries) == LuaValue("table", <<>>, 0, entries)
Entry(key, val) == [key |-> key, val |-> val]

\* t.get(key): the value stored under the key, nil when there is none.
TableGet(entries, key) ==
    IF \E i \in 1..Len(entries) : entries[i].key = key
    THEN entries[CHOOSE i \in 1..Len(entries) : entries[i].key = key].val
    ELSE LuaNil

\* escape_json_string: the quotes around the text and the escape of a quote
\* inside it.
escape_json_string(s) ==
    <<"\"">> \o [i \in 1..Len(s) |-> IF s[i] = "\"" THEN "\\\"" ELSE s[i]]
             \o <<"\"">>

\* items.join(",")
RECURSIVE Join(_)
Join(items) ==
    IF Len(items) = 0 THEN <<>>
    ELSE IF Len(items) = 1 THEN items[1]
    ELSE items[1] \o <<",">> \o Join(Tail(items))

\* The first loop of the Table arm: every key is an integer above zero.
IsArray(entries) ==
    \A i \in 1..Len(entries) :
        entries[i].key.kind = "integer" /\ entries[i].key.n > 0

\* max_index when that loop has seen every key.
MaxIndex(entries) ==
    IF entries = <<>> THEN 0
    ELSE LET ns == {entries[i].key.n : i \in 1..Len(entries)}
         IN  CHOOSE m \in ns : \A n \in ns : n <= m

\* The entries the object arm writes: those with a string or integer key.
RECURSIVE ObjectEntries(_)
ObjectEntries(entries) ==
    IF entries = <<>> THEN <<>>
    ELSE IF Head(entries).key.kind \in {"string", "integer"}
    THEN <<Head(entries)>> \o ObjectEntries(Tail(entries))
    ELSE ObjectEntries(Tail(entries))

RECURSIVE value_to_json(_)

value_to_json(value) ==
    CASE value.kind = "nil" -> <<"null">>
      [] value.kind = "boolean" -> << IF value.n = 1 THEN "true" ELSE "false" >>
      [] value.kind = "integer" -> << ToString(value.n) >>
      [] value.kind = "string" -> escape_json_string(value.s)
      [] value.kind = "table" ->
            IF IsArray(value.t) /\ MaxIndex(value.t) > 0
            THEN <<"[">>
                 \o Join([i \in 1..MaxIndex(value.t) |->
                        value_to_json(TableGet(value.t, LuaInteger(i)))])
                 \o <<"]">>
            ELSE LET kept == ObjectEntries(value.t)
                 IN  <<"{">>
                     \o Join([i \in 1..Len(kept) |->
                            escape_json_string(
                                IF kept[i].key.kind = "string" THEN kept[i].key.s
                                ELSE << ToString(kept[i].key.n) >>)
                            \o <<":">> \o value_to_json(kept[i].val)])
                     \o <<"}">>
      [] OTHER -> <<"null">>

\* ------------------------------------------------------------------------
\* http_server.rs: dispatch_to_lua_inner, the request context
\* ------------------------------------------------------------------------

\* The response state of the context table when the handler is called.
CtxInit ==
    [status |-> 200, content_type |-> "text/plain", body |-> LuaString(<<>>),
     headers |-> LuaNil]

\* What a handler does to the context: a call of ctx:status, ctx:json,
\* ctx:text or ctx:html, or an assignment to ctx._body or ctx._headers.
CtxOp(op, arg) == [op |-> op, arg |-> arg]

CtxApply(ctx, o) ==
    CASE o.op = "status" -> [ctx EXCEPT !.status = o.arg.n]
      [] o.op = "json" -> [ctx EXCEPT !.content_type = "application/json",
                                      !.body = LuaString(value_to_json(o.arg))]
      [] o.op = "text" -> [ctx EXCEPT !.content_type = "text/plain",
                                      !.body = o.arg]
      [] o.op = "html" -> [ctx EXCEPT !.content_type = "text/html",
                                      !.body = o.arg]
      [] o.op = "_body" -> [ctx EXCEPT !.body = o.arg]
      [] o.op = "_headers" -> [ctx EXCEPT !.headers = o.arg]

RECURSIVE CtxAfter(_, _)
CtxAfter(ctx, ops) ==
    IF ops = <<>> THEN ctx ELSE CtxAfter(CtxApply(ctx, Head(ops)), Tail(ops))

\* A handler: what it does to the context, and the value it returns.
Handler(ops, result) == [ops |-> ops, result |-> result]

\* ctx.get::<mlua::String>: a string as it is, a number as its text, an
\* error for any other value.
GetString(v) ==
    CASE v.kind = "string" -> [ok |-> TRUE, s |-> v.s]
      [] v.kind = "integer" -> [ok |-> TRUE, s |-> << ToString(v.n) >>]
      [] OTHER -> [ok |-> FALSE, s |-> <<>>]

\* str::to_lowercase on the header names the model uses.
to_lowercase(key) ==
    CASE key = "Content-Type" -> "content-type"
      [] key = "CONTENT-LENGTH" -> "content-length"
      [] key = "Content-Length" -> "content-length"
      [] key = "X-Id" -> "x-id"
      [] OTHER -> key

\* The value of an extra header: a string as it is, the Debug text of any
\* other value.
HeaderValue(v) ==
    IF v.kind = "string" THEN v.s ELSE <<"{:?}", v.kind>>

\* The loop over ctx._headers: the pairs with a string key other than
\* Content-Type and Content-Length, in any letter case.
RECURSIVE ExtraHeaders(_)
ExtraHeaders(entries) ==
    IF entries = <<>> THEN <<>>
    ELSE LET h == Head(entries)
         IN  (IF /\ h.key.kind = "string"
                 /\ to_lowercase(h.key.s[1]) # "content-type"
                 /\ to_lowercase(h.key.s[1]) # "content-length"
              THEN << <<h.key.s[1], HeaderValue(h.val)>> >>
              ELSE <<>>)
             \o ExtraHeaders(Tail(entries))

\* dispatch_to_lua_inner after the call of the handler: the response read
\* back from the context and from the value returned.
ReadBack(ctx, result) ==
    [status |-> ctx.status,
     content_type |-> ctx.content_type,
     body |-> IF GetString(ctx.body).ok THEN GetString(ctx.body).s
              ELSE CASE result.kind = "string" -> result.s
                     [] result.kind = "nil" -> <<>>
                     [] OTHER -> value_to_json(result),
     headers |-> IF ctx.headers.kind = "table"
                 THEN ExtraHeaders(ctx.headers.t) ELSE <<>>]

\* The handler of the runs of the server: ctx:text("ok").
ServerHandler == Handler(<< CtxOp("text", LuaString(<<"ok">>)) >>, LuaNil)

\* dispatch_to_lua's result for a handler that returned, and for one that
\* raised error e.
HandlerResponse == ReadBack(CtxAfter(CtxInit, script.handler.ops), script.handler.result)
HandlerErrorResponse(e) ==
    HttpResponse(500, <<"Internal", "Server", "Error:">> \o e)

\* ------------------------------------------------------------------------
\* Spec: the server. Initial state
\* ------------------------------------------------------------------------

Conns == 1..MaxConns

\* Positions of the main Lua thread in server_listen:
\*   "listen_cb"  inside cb.call(port)
\*   "drain"      in drain_timers, at try_recv_timer_event
\*   "timer_cb"   in drain_timers, inside func.call
\*   "recv"       at rx.recv_timeout
\*   "handler"    in dispatch_to_lua_inner, inside handler.call; route is
\*                the key of the handler found
\*   "failed"     server_listen returned the listen callback's error
\*   "exited"     the loop broke on Disconnected
ScriptPositions == {"listen_cb", "timer_cb", "handler"}
DispAt(pc, timer, cb, c) ==
    [pc |-> pc, timer |-> timer, cb |-> cb, conn |-> c, route |-> NoRoute]

Invocation(thread, kind) == [thread |-> thread, kind |-> kind]

\* The route table of the runs: server:get("/a", handler).
ServerRoutes == { <<"GET", "/a">> }

StreamOf(lines, tail) == [lines |-> lines, tail |-> tail]

\* The streams the peers of Spec send: a GET and a HEAD of a routed path, a
\* GET of an unknown path, and nothing at all.
ServerStreams ==
    { StreamOf(<<RequestLine(<<"GET", "/a", "HTTP/1.1">>, 16, TRUE), BlankLine>>, "stall"),
      StreamOf(<<RequestLine(<<"HEAD", "/a", "HTTP/1.1">>, 17, TRUE), BlankLine>>, "eof"),
      StreamOf(<<RequestLine(<<"get", "/zz", "HTTP/1.1">>, 17, TRUE), BlankLine>>, "eof"),
      StreamOf(<<>>, "stall") }

NoStream == StreamOf(<<>>, "eof")

\* The oneshot channel of a connection: "none" (not created), "open" (the
\* sender travels with the request), "sent" (it holds the response) or
\* "dropped" (the sender was dropped unused).
NoResponse == HttpResponse(0, <<>>)
NoReply == [st |-> "none", response |-> NoResponse]

HistInit ==
    [ posted    |-> {},   \* ids whose task posted a notification
      fired     |-> {},   \* ids whose callback was invoked
      cancelled |-> {},   \* ids cancel_timer was called with
      early     |-> {},   \* ids cancelled while their task was in a sleep
      late      |-> {},   \* ids cancelled while present with a notification queued
      selfc     |-> {},   \* Interval ids cancelled from inside their own callback
      stale     |-> {},   \* ids whose callback was invoked after a cancel_timer
      dropped   |-> {},   \* ids a notification of which found no entry
      raised    |-> {},   \* ids whose callback raised an error
      unrouted  |-> {},   \* connections answered 404 while the server table
                          \* of the script held a route for their request
      decs      |-> [t \in TimerIds |-> 0] ]  \* fetch_sub calls made for each id

\* The threads of SpecAlloc. A thread is "idle", or "called" (inside
\* next_timer_id, before its fetch_add), or "fetched" (after it, holding the
\* value id to return); before is the number of calls that had returned
\* when the thread made its call. log lists the calls that returned, in the
\* order of their return, each with its id and its before.
Threads == 1..MaxThreads
IdleThread == [pc |-> "idle", id |-> 0, before |-> 0]
NoCallers == [th |-> [t \in Threads |-> IdleThread], log |-> <<>>]

\* The three mutexes: of TIMER_CALLBACKS, of CANCELLED_TIMERS and of the
\* receiver of TIMER_CHANNEL. Each is free ("none") or owned by the main
\* thread ("main") or by the scheduling task tid ("task"). pc is the
\* statement of the main thread, id and cb the event it received and the
\* callback it took, call the timer a call of the script works on.
Mutexes == {"callbacks", "cancelled", "rx"}
NoOwner == [l \in Mutexes |-> "none"]
NoCall == [id |-> 0, cb |-> NoCallback]
NoLocks ==
    [pc |-> "idle", id |-> 0, cb |-> NoCallback, call |-> NoCall,
     owner |-> NoOwner, tid |-> 0]

InitIdle ==
    /\ reg = RegistryInit
    /\ loan = [t \in TimerIds |-> NoCallback]
    /\ timer_queue = <<>>
    /\ task = [t \in TimerIds |-> "none"]
    /\ callers = NoCallers
    /\ locks = NoLocks
    /\ req_queue = <<>>
    /\ reply = [c \in Conns |-> NoReply]
    /\ written = [c \in Conns |-> <<>>]
    /\ hist = HistInit

\* server_listen has spawned the accept loop and is about to call the listen
\* callback, or has none and enters the loop.
NoConn == [st |-> "unborn", stream |-> NoStream, request |-> NoRequest,
           alloc |-> 0]

\* server_listen with a listen callback: it has spawned the accept loop and
\* is inside cb.call(port).
InitListenCallback ==
    /\ disp = DispAt("listen_cb", 0, NoCallback, 0)
    /\ running = <<Invocation("main", "listen_cb")>>

\* server_listen without a listen callback: it has spawned the accept loop
\* and enters the loop.
InitLoop ==
    /\ disp = DispAt("drain", 0, NoCallback, 0)
    /\ running = <<>>

Init ==
    /\ InitIdle
    /\ route_handlers = ServerRoutes
    /\ acceptor = "spawned"
    /\ conn = [c \in Conns |-> NoConn]
    /\ script = [timers |-> MaxScriptTimers, handler |-> ServerHandler,
                 routes |-> route_handlers]
    /\ (InitListenCallback \/ InitLoop)

\* ------------------------------------------------------------------------
\* Script code: the timer globals (setTimeout, setInterval, clearTimeout)
\* ------------------------------------------------------------------------

\* A scheduling task is "once" or "repeat" while it sleeps, "ready_once" or
\* "ready_repeat" between its look at the cancellation marker and its post,
\* and "stopped" when it has returned.
Sleeping == {"once", "repeat"}
Ready == {"ready_once", "ready_repeat"}

\* fetch_sub calls an operation on id made, from the count before and after.
CountDecs(h, id, before, after) ==
    IF after.pending < before.pending
    THEN [h EXCEPT !.decs[id] = @ + (before.pending - after.pending)]
    ELSE h

\* setTimeout / setInterval: allocate an id, register the callback and spawn
\* the scheduling task.
ScriptSetTimer(ty) ==
    /\ disp.pc \in ScriptPositions
    /\ reg.next_id <= script.timers
    /\ LET a == next_timer_id(reg)
       IN  /\ reg' = register_timer(a.reg, a.id, ty)
           /\ task' = [task EXCEPT ![a.id] =
                          IF ty = "Timeout" THEN "once" ELSE "repeat"]
    /\ UNCHANGED <<loan, timer_queue, hist>>
    /\ UNCHANGED serverVars
    /\ UNCHANGED connVars
    /\ UNCHANGED <<callers, locks>>

\* clearTimeout / clearInterval.
ScriptCancel(id) ==
    /\ disp.pc \in ScriptPositions
    /\ id <= script.timers
    /\ reg' = cancel_timer(reg, id)
    /\ LET queued == \E i \in 1..Len(timer_queue) : timer_queue[i] = id
           h == [hist EXCEPT
                   !.cancelled = @ \cup {id},
                   !.early = IF task[id] \in Sleeping THEN @ \cup {id} ELSE @,
                   !.late = IF queued /\ reg.callbacks[id] # NoCallback
                            THEN @ \cup {id} ELSE @,
                   !.selfc = IF disp.pc = "timer_cb" /\ disp.timer = id
                                /\ disp.cb = "Interval"
                             THEN @ \cup {id} ELSE @]
       IN  hist' = CountDecs(h, id, reg, reg')
    /\ UNCHANGED <<loan, timer_queue, task>>
    /\ UNCHANGED serverVars
    /\ UNCHANGED connVars
    /\ UNCHANGED <<callers, locks>>

\* ------------------------------------------------------------------------
\* The scheduling task of a timer, and the timer channel
\* ------------------------------------------------------------------------

\* Faulty variant of send_timer_ready: the event goes to the front.
send_timer_ready_front(queue, id) == <<id>> \o queue

send_timer_ready(queue, id) == Append(queue, id)

\* The sleep of timer t elapses: the task stops if it sees t cancelled, and
\* goes on to post otherwise.
TaskWake(t) ==
    /\ task[t] \in Sleeping
    /\ task' = [task EXCEPT ![t] =
                   IF is_timer_cancelled(reg, t) THEN "stopped"
                   ELSE IF @ = "once" THEN "ready_once" ELSE "ready_repeat"]
    /\ UNCHANGED <<reg, loan, timer_queue, hist>>
    /\ UNCHANGED serverVars
    /\ UNCHANGED connVars
    /\ UNCHANGED <<callers, locks>>

\* The task posts Ready(t); a repeating task sleeps again.
TaskPost(t) ==
    /\ task[t] \in Ready
    /\ Len(timer_queue) < MaxQueue
    /\ timer_queue' = send_timer_ready(timer_queue, t)
    /\ task' = [task EXCEPT ![t] = IF @ = "ready_once" THEN "stopped" ELSE "repeat"]
    /\ hist' = [hist EXCEPT !.posted = @ \cup {t}]
    /\ UNCHANGED <<reg, loan>>
    /\ UNCHANGED serverVars
    /\ UNCHANGED connVars
    /\ UNCHANGED <<callers, locks>>

\* ------------------------------------------------------------------------
\* server_listen: the main Lua event loop
\* ------------------------------------------------------------------------

Pop(stack) == SubSeq(stack, 1, Len(stack) - 1)

\* The receiver of the request channel lives as long as server_listen runs.
ReceiverAlive == disp.pc \notin {"failed", "exited"}

\* The senders of the request channel: the accept loop's, and one clone in
\* every connection task that has not returned.
SendersAlive ==
    \/ acceptor \in {"spawned", "listening"}
    \/ \E c \in Conns : conn[c].st \in {"parsing", "waiting"}

\* Dropping the receiver drops the queued messages and their reply senders.
DropQueued ==
    [c \in Conns |->
        IF \E i \in 1..Len(req_queue) : req_queue[i] = c
        THEN [reply[c] EXCEPT !.st = "dropped"]
        ELSE reply[c]]

\* cb.call::<()>(port)? returns: into the loop, or out of server_listen with
\* the callback's error.
ListenCallbackReturn(ok) ==
    /\ disp.pc = "listen_cb"
    /\ running' = Pop(running)
    /\ IF ok
       THEN /\ disp' = DispAt("drain", 0, NoCallback, 0)
            /\ UNCHANGED <<req_queue, reply>>
       ELSE /\ disp' = DispAt("failed", 0, NoCallback, 0)
            /\ req_queue' = <<>>
            /\ reply' = DropQueued
    /\ UNCHANGED <<route_handlers, acceptor, conn, written, script, hist>>
    /\ UNCHANGED timerVars

\* drain_timers, one iteration of its loop on a received event: take the
\* callback and call it, or find none.
DrainTimer ==
    /\ disp.pc = "drain"
    /\ timer_queue # <<>>
    /\ LET id == Head(timer_queue)
           r == take_timer_callback(reg, id)
           h == CountDecs(hist, id, reg, r.reg)
       IN  /\ timer_queue' = Tail(timer_queue)
           /\ reg' = r.reg
           /\ IF r.cb = NoCallback
              THEN /\ hist' = [h EXCEPT !.dropped = @ \cup {id}]
                   /\ UNCHANGED <<disp, running, loan>>
              ELSE /\ disp' = DispAt("timer_cb", id, r.cb, 0)
                   /\ running' = Append(running, Invocation("main", "timer_cb"))
                   /\ loan' = IF r.cb = "Interval"
                              THEN [loan EXCEPT ![id] = r.cb] ELSE loan
                   /\ hist' = [h EXCEPT
                                 !.fired = @ \cup {id},
                                 !.stale = IF id \in hist.cancelled
                                           THEN @ \cup {id} ELSE @]
    /\ UNCHANGED <<task, route_handlers, acceptor, req_queue, script>>
    /\ UNCHANGED connVars
    /\ UNCHANGED <<callers, locks>>

\* Faulty variant of DrainDone: the pass ends with events left in the queue.
\* Faulty variant of DrainDone: the pass waits for the next timer event
\* without a bound.
DrainDoneBlocking ==
    /\ disp.pc = "drain"
    /\ timer_queue = <<>>
    /\ UNCHANGED vars

DrainDoneEarly ==
    /\ disp.pc = "drain"
    /\ disp' = DispAt("recv", 0, NoCallback, 0)
    /\ UNCHANGED <<running, route_handlers, acceptor, req_queue, script, hist>>
    /\ UNCHANGED timerVars
    /\ UNCHANGED connVars

\* drain_timers finds the channel empty and returns; the loop goes on to
\* rx.recv_timeout.
DrainDone ==
    /\ disp.pc = "drain"
    /\ timer_queue = <<>>
    /\ disp' = DispAt("recv", 0, NoCallback, 0)
    /\ UNCHANGED <<running, route_handlers, acceptor, req_queue, script, hist>>
    /\ UNCHANGED timerVars
    /\ UNCHANGED connVars

\* The error of a callback, noted in the history.
Raised(h, id, ok) == IF ok THEN h ELSE [h EXCEPT !.raised = @ \cup {id}]

\* Faulty variant of TimerCallbackReturn: the error of the callback is
\* propagated out of server_listen and the entry is not checked in.
TimerCallbackPropagates(ok) ==
    /\ disp.pc = "timer_cb"
    /\ running' = Pop(running)
    /\ disp' = DispAt(IF ok THEN "drain" ELSE "failed", 0, NoCallback, 0)
    /\ IF disp.cb = "Interval" /\ ok
       THEN /\ reg' = restore_timer_callback(reg, disp.timer, disp.cb)
            /\ loan' = [loan EXCEPT ![disp.timer] = NoCallback]
            /\ hist' = Raised(CountDecs(hist, disp.timer, reg, reg'), disp.timer, ok)
       ELSE /\ hist' = Raised(hist, disp.timer, ok)
            /\ UNCHANGED <<reg, loan>>
    /\ UNCHANGED <<timer_queue, task, route_handlers, acceptor, req_queue, script>>
    /\ UNCHANGED connVars
    /\ UNCHANGED <<callers, locks>>

\* The timer callback returns, with or without an error: a Timeout entry is
\* dropped, an Interval entry restored.
TimerCallbackReturn(ok) ==
    /\ disp.pc = "timer_cb"
    /\ running' = Pop(running)
    /\ disp' = DispAt("drain", 0, NoCallback, 0)
    /\ IF disp.cb = "Interval"
       THEN /\ reg' = restore_timer_callback(reg, disp.timer, disp.cb)
            /\ loan' = [loan EXCEPT ![disp.timer] = NoCallback]
            /\ hist' = Raised(CountDecs(hist, disp.timer, reg, reg'), disp.timer, ok)
       ELSE /\ hist' = Raised(hist, disp.timer, ok)
            /\ UNCHANGED <<reg, loan>>
    /\ UNCHANGED <<timer_queue, task, route_handlers, acceptor, req_queue, script>>
    /\ UNCHANGED connVars
    /\ UNCHANGED <<callers, locks>>

\* rx.recv_timeout returns a message: look the route up; answer 404, or call
\* the handler.
\* resp_tx.send(response) on the oneshot channel of connection c: Err, with
\* the response handed back and dropped, when the receiver is gone.
oneshot_send(c, response) ==
    IF conn[c].st = "gone"
    THEN [st |-> "failed", response |-> NoResponse]
    ELSE [st |-> "sent", response |-> response]

RecvRequest ==
    /\ disp.pc = "recv"
    /\ req_queue # <<>>
    /\ LET c == Head(req_queue)
       IN  /\ req_queue' = Tail(req_queue)
           /\ IF find_handler(route_handlers, conn[c].request) = NoRoute
              THEN /\ reply' = [reply EXCEPT ![c] =
                                  oneshot_send(c, NotFoundResponse)]
                   /\ disp' = DispAt("drain", 0, NoCallback, 0)
                   /\ UNCHANGED running
              ELSE /\ disp' = [DispAt("handler", 0, NoCallback, c) EXCEPT
                                 !.route = find_handler(route_handlers,
                                                        conn[c].request)]
                   /\ running' = Append(running, Invocation("main", "handler"))
                   /\ UNCHANGED reply
           /\ hist' = IF /\ find_handler(route_handlers, conn[c].request) = NoRoute
                         /\ find_handler(script.routes, conn[c].request) # NoRoute
                      THEN [hist EXCEPT !.unrouted = @ \cup {c}]
                      ELSE hist
    /\ UNCHANGED <<route_handlers, acceptor, conn, written, script>>
    /\ UNCHANGED timerVars

\* Faulty variant of RecvTimeout: a wait without a bound, which stays in
\* the wait while no message comes.
RecvBlocking ==
    /\ disp.pc = "recv"
    /\ req_queue = <<>>
    /\ SendersAlive
    /\ UNCHANGED vars

\* rx.recv_timeout times out after 10 ms without a message.
RecvTimeout ==
    /\ disp.pc = "recv"
    /\ req_queue = <<>>
    /\ SendersAlive
    /\ disp' = DispAt("drain", 0, NoCallback, 0)
    /\ UNCHANGED <<running, route_handlers, acceptor, req_queue, script, hist>>
    /\ UNCHANGED timerVars
    /\ UNCHANGED connVars

\* Faulty variant of RecvDisconnected: the loop ends when the wait finds no
\* message, whoever holds a sender.
RecvDisconnectedOnIdle ==
    /\ disp.pc = "recv"
    /\ req_queue = <<>>
    /\ disp' = DispAt("exited", 0, NoCallback, 0)
    /\ UNCHANGED <<running, route_handlers, acceptor, req_queue, script, hist>>
    /\ UNCHANGED timerVars
    /\ UNCHANGED connVars

\* rx.recv_timeout reports Disconnected: no sender is left.
RecvDisconnected ==
    /\ disp.pc = "recv"
    /\ req_queue = <<>>
    /\ ~SendersAlive
    /\ disp' = DispAt("exited", 0, NoCallback, 0)
    /\ UNCHANGED <<running, route_handlers, acceptor, req_queue, script, hist>>
    /\ UNCHANGED timerVars
    /\ UNCHANGED connVars

\* The error a raising handler or callback of the model raises.
HandlerError == <<"boom">>

\* Faulty variant of dispatch_to_lua: the 500 does not say what failed.
dispatch_to_lua_silent(ok) ==
    IF ok THEN HandlerResponse
    ELSE HttpResponse(500, <<"Internal", "Server", "Error">>)

\* dispatch_to_lua once the handler was called: its response when it
\* returned, the 500 with the error when it raised.
dispatch_to_lua(ok) ==
    IF ok THEN HandlerResponse ELSE HandlerErrorResponse(HandlerError)

\* Faulty variant of HandlerReturn: the response goes to the reply channel
\* of another connection that waits, if there is one.
HandlerReturnCrossed(ok) ==
    /\ disp.pc = "handler"
    /\ running' = Pop(running)
    /\ LET others == {c \in Conns : c # disp.conn /\ reply[c].st = "open"}
           to == IF others = {} THEN disp.conn ELSE CHOOSE c \in others : TRUE
       IN  reply' = [reply EXCEPT ![to] = oneshot_send(to, dispatch_to_lua(ok))]
    /\ disp' = DispAt("drain", 0, NoCallback, 0)
    /\ UNCHANGED <<route_handlers, acceptor, req_queue, conn, written, script, hist>>
    /\ UNCHANGED timerVars

\* Faulty variant of HandlerReturn: a failed send ends server_listen with an
\* error.
HandlerReturnSendFatal(ok) ==
    /\ disp.pc = "handler"
    /\ running' = Pop(running)
    /\ reply' = [reply EXCEPT ![disp.conn] =
                    oneshot_send(disp.conn, dispatch_to_lua(ok))]
    /\ disp' = DispAt(IF conn[disp.conn].st = "gone" THEN "failed" ELSE "drain",
                      0, NoCallback, 0)
    /\ UNCHANGED <<route_handlers, acceptor, req_queue, conn, written, script, hist>>
    /\ UNCHANGED timerVars

\* The handler returns or raises: the response is built and sent on the
\* reply channel, the result of the send is ignored, and the loop goes on.
HandlerReturn(ok) ==
    /\ disp.pc = "handler"
    /\ running' = Pop(running)
    /\ reply' = [reply EXCEPT ![disp.conn] =
                    oneshot_send(disp.conn, dispatch_to_lua(ok))]
    /\ disp' = DispAt("drain", 0, NoCallback, 0)
    /\ UNCHANGED <<route_handlers, acceptor, req_queue, conn, written, script, hist>>
    /\ UNCHANGED timerVars

\* ------------------------------------------------------------------------
\* The accept loop and the connection tasks
\* ------------------------------------------------------------------------

\* TcpListener::bind succeeds, or fails and ends the task.
AcceptorBind(ok) ==
    /\ acceptor = "spawned"
    /\ acceptor' = IF ok THEN "listening" ELSE "failed"
    /\ UNCHANGED <<disp, running, route_handlers, req_queue, script, hist>>
    /\ UNCHANGED timerVars
    /\ UNCHANGED connVars

\* listener.accept returns a stream and a connection task is spawned.
Accept(c, stream) ==
    /\ acceptor = "listening"
    /\ conn[c].st = "unborn"
    /\ \A b \in Conns : b < c => conn[b].st # "unborn"
    /\ conn' = [conn EXCEPT ![c] = [@ EXCEPT !.st = "parsing", !.stream = stream]]
    /\ UNCHANGED <<reply, written, hist>>
    /\ UNCHANGED serverVars
    /\ UNCHANGED timerVars

\* Faulty variant of SendToMain: the connection task calls the handler.
CallHandlerInTask(c) ==
    /\ running' = Append(running, Invocation("conn", "handler"))
    /\ UNCHANGED req_queue

\* tx.send((request, resp_tx)): the request goes to the main Lua thread.
SendToMain(c) ==
    /\ req_queue' = Append(req_queue, c)
    /\ UNCHANGED running

\* handle_connection_inner up to its wait for the reply: the parse phase
\* under its timeout, then the error response or the send.
ConnParse(c) ==
    /\ conn[c].st = "parsing"
    /\ LET result == parse_request(conn[c].stream)
           o == parse_outcome(result)
       IN  IF o.forward
           THEN IF ReceiverAlive
                THEN /\ SendToMain(c)
                     /\ reply' = [reply EXCEPT ![c] = [@ EXCEPT !.st = "open"]]
                     /\ conn' = [conn EXCEPT ![c] =
                                    [@ EXCEPT !.st = "waiting",
                                              !.request = result.request,
                                              !.alloc = result.alloc]]
                     /\ UNCHANGED written
                ELSE /\ conn' = [conn EXCEPT ![c] =
                                    [@ EXCEPT !.st = "closed",
                                              !.request = result.request,
                                              !.alloc = result.alloc]]
                     /\ UNCHANGED <<req_queue, running, reply, written>>
           ELSE /\ written' = [written EXCEPT ![c] = Append(@, o.bytes)]
                /\ conn' = [conn EXCEPT ![c] =
                               [@ EXCEPT !.st = "closed", !.alloc = result.alloc]]
                /\ UNCHANGED <<req_queue, running, reply>>
    /\ UNCHANGED <<disp, route_handlers, acceptor, script, hist>>
    /\ UNCHANGED timerVars

\* Faulty variant of ConnReply: the task does not wait for the reply.
ConnReplyNoWait(c) ==
    /\ conn[c].st = "waiting"
    /\ LET r == reply[c].response
           bytes == IF reply[c].st = "sent"
                    THEN build_response_bytes_ex(r.status, r.content_type, r.body,
                             r.headers, conn[c].request.method = "HEAD")
                    ELSE build_response_bytes(500, "text/plain",
                             <<"Internal", "Server", "Error">>, <<>>)
       IN  written' = [written EXCEPT ![c] = Append(@, bytes)]
    /\ conn' = [conn EXCEPT ![c] = [@ EXCEPT !.st = "closed"]]
    /\ UNCHANGED <<reply, hist>>
    /\ UNCHANGED serverVars
    /\ UNCHANGED timerVars

\* Faulty variant of ConnReply: the wait ends only with a response.
ConnReplyOnResponse(c) ==
    /\ conn[c].st = "waiting"
    /\ reply[c].st = "sent"
    /\ LET r == reply[c].response
       IN  written' = [written EXCEPT ![c] =
                Append(@, build_response_bytes_ex(r.status, r.content_type, r.body,
                              r.headers, conn[c].request.method = "HEAD"))]
    /\ conn' = [conn EXCEPT ![c] = [@ EXCEPT !.st = "closed"]]
    /\ UNCHANGED <<reply, hist>>
    /\ UNCHANGED serverVars
    /\ UNCHANGED timerVars

\* resp_rx.await completes: write the response, or a 500 when the sender
\* was dropped.
ConnReply(c) ==
    /\ conn[c].st = "waiting"
    /\ reply[c].st \in {"sent", "dropped"}
    /\ LET r == reply[c].response
           bytes == IF reply[c].st = "sent"
                    THEN build_response_bytes_ex(r.status, r.content_type, r.body,
                            r.headers, conn[c].request.method = "HEAD")
                    ELSE build_response_bytes(500, "text/plain",
                            <<"Internal", "Server", "Error">>, <<>>)
       IN  written' = [written EXCEPT ![c] = Append(@, bytes)]
    /\ conn' = [conn EXCEPT ![c] = [@ EXCEPT !.st = "closed"]]
    /\ UNCHANGED <<reply, hist>>
    /\ UNCHANGED serverVars
    /\ UNCHANGED timerVars

Next ==
    \/ \E ty \in TimerTypes : ScriptSetTimer(ty)
    \/ \E id \in TimerIds : ScriptCancel(id)
    \/ \E t \in TimerIds : TaskWake(t)
    \/ \E t \in TimerIds : TaskPost(t)
    \/ \E ok \in BOOLEAN : ListenCallbackReturn(ok)
    \/ DrainTimer
    \/ DrainDone
    \/ \E ok \in BOOLEAN : TimerCallbackReturn(ok)
    \/ RecvRequest
    \/ RecvTimeout
    \/ RecvDisconnected
    \/ \E ok \in BOOLEAN : HandlerReturn(ok)
    \/ \E ok \in BOOLEAN : AcceptorBind(ok)
    \/ \E c \in Conns, stream \in ServerStreams : Accept(c, stream)
    \/ \E c \in Conns : ConnParse(c)
    \/ \E c \in Conns : ConnReply(c)

Spec == Init /\ [][Next]_vars

\* The scheduling the runtime gives: a connection task whose wait on the
\* reply channel can end is polled, the main thread executes its next step,
\* and the Lua functions called return. Nothing is assumed of the peers, of
\* the script's timer calls or of the timer tasks.
ConnFairness == \A c \in Conns : WF_vars(ConnReply(c))

LoopFairness ==
    /\ WF_vars(\E ok \in BOOLEAN : ListenCallbackReturn(ok))
    /\ WF_vars(DrainTimer)
    /\ WF_vars(DrainDone)
    /\ WF_vars(\E ok \in BOOLEAN : TimerCallbackReturn(ok))
    /\ WF_vars(RecvRequest)
    /\ WF_vars(RecvTimeout)
    /\ WF_vars(RecvDisconnected)
    /\ WF_vars(\E ok \in BOOLEAN : HandlerReturn(ok))

SpecLive == Spec /\ ConnFairness /\ LoopFairness

\* ------------------------------------------------------------------------
\* SpecTimers: the loop and the timers, with no connection
\* ------------------------------------------------------------------------

InitTimers ==
    /\ InitIdle
    /\ route_handlers = ServerRoutes
    /\ acceptor = "listening"
    /\ conn = [c \in Conns |-> NoConn]
    /\ script = [timers |-> MaxLoopTimers, handler |-> ServerHandler,
                 routes |-> route_handlers]
    /\ InitListenCallback

NextTimers ==
    \/ \E ty \in TimerTypes : ScriptSetTimer(ty)
    \/ \E id \in TimerIds : ScriptCancel(id)
    \/ \E t \in TimerIds : TaskWake(t)
    \/ \E t \in TimerIds : TaskPost(t)
    \/ ListenCallbackReturn(TRUE)
    \/ DrainTimer
    \/ DrainDone
    \/ \E ok \in BOOLEAN : TimerCallbackReturn(ok)
    \/ RecvTimeout

SpecTimers == InitTimers /\ [][NextTimers]_vars

\* ------------------------------------------------------------------------
\* SpecDrain: SpecTimers with notifications posted more than once
\* ------------------------------------------------------------------------

\* send_timer_ready is called once more for an id that was posted.
DuplicatePost(t) ==
    /\ t \in hist.posted
    /\ Len(timer_queue) < MaxQueue
    /\ timer_queue' = send_timer_ready(timer_queue, t)
    /\ UNCHANGED <<reg, loan, task, callers, locks, hist>>
    /\ UNCHANGED serverVars
    /\ UNCHANGED connVars

NextDrain ==
    \/ NextTimers
    \/ \E t \in TimerIds : DuplicatePost(t)

SpecDrain == InitTimers /\ [][NextDrain]_vars

\* The main thread executes its next step and the callbacks return.
SpecTimersLive == SpecTimers /\ LoopFairness

\* The scheduling tasks run as well: a sleep elapses, and a task that is
\* about to post posts.
TaskFairness ==
    \A t \in TimerIds : WF_vars(TaskWake(t)) /\ WF_vars(TaskPost(t))

SpecTasksLive == SpecTimers /\ LoopFairness /\ TaskFairness

\* ------------------------------------------------------------------------
\* SpecRegistry: any sequence of register / cancel / checkout / checkin
\* ------------------------------------------------------------------------

InitRegistry ==
    /\ InitIdle
    /\ route_handlers = ServerRoutes
    /\ acceptor = "listening"
    /\ conn = [c \in Conns |-> NoConn]
    /\ script = [timers |-> MaxTimers, handler |-> ServerHandler,
                 routes |-> route_handlers]
    /\ InitLoop

\* register_timer on an id that is neither present nor checked out.
Register(id, ty) ==
    /\ id <= script.timers
    /\ reg.callbacks[id] = NoCallback
    /\ loan[id] = NoCallback
    /\ reg' = register_timer(reg, id, ty)
    /\ UNCHANGED <<loan, timer_queue, task, hist>>
    /\ UNCHANGED serverVars
    /\ UNCHANGED connVars
    /\ UNCHANGED <<callers, locks>>

Cancel(id) ==
    /\ reg' = cancel_timer(reg, id)
    /\ UNCHANGED <<loan, timer_queue, task, hist>>
    /\ UNCHANGED serverVars
    /\ UNCHANGED connVars
    /\ UNCHANGED <<callers, locks>>

\* take_timer_callback; an Interval entry stays with the caller until it is
\* restored, a Timeout entry is dropped by the caller.
Checkout(id) ==
    /\ loan[id] = NoCallback
    /\ LET r == take_timer_callback(reg, id)
       IN  /\ reg' = r.reg
           /\ loan' = IF r.cb = "Interval" THEN [loan EXCEPT ![id] = r.cb] ELSE loan
    /\ UNCHANGED <<timer_queue, task, hist>>
    /\ UNCHANGED serverVars
    /\ UNCHANGED connVars
    /\ UNCHANGED <<callers, locks>>

Checkin(id) ==
    /\ loan[id] # NoCallback
    /\ reg' = restore_timer_callback(reg, id, loan[id])
    /\ loan' = [loan EXCEPT ![id] = NoCallback]
    /\ UNCHANGED <<timer_queue, task, hist>>
    /\ UNCHANGED serverVars
    /\ UNCHANGED connVars
    /\ UNCHANGED <<callers, locks>>

NextRegistry ==
    \/ \E id \in TimerIds, ty \in TimerTypes : Register(id, ty)
    \/ \E id \in TimerIds : Cancel(id)
    \/ \E id \in TimerIds : Checkout(id)
    \/ \E id \in TimerIds : Checkin(id)

SpecRegistry == InitRegistry /\ [][NextRegistry]_vars

\* ------------------------------------------------------------------------
\* SpecLocks: drain_timers and the registry, one mutex operation at a time
\* ------------------------------------------------------------------------

\* The listen callback has set a timer 1 and a timer 2 and returned; their
\* scheduling tasks sleep, and the main thread enters drain_timers.
InitLocks ==
    /\ \E ty1 \in TimerTypes, ty2 \in TimerTypes :
          /\ reg = register_timer(
                      next_timer_id(
                        register_timer(next_timer_id(RegistryInit).reg, 1, ty1)).reg,
                      2, ty2)
          /\ task = [t \in TimerIds |->
                        IF t = 1 THEN (IF ty1 = "Timeout" THEN "once" ELSE "repeat")
                        ELSE IF t = 2
                        THEN (IF ty2 = "Timeout" THEN "once" ELSE "repeat")
                        ELSE "none"]
    /\ loan = [t \in TimerIds |-> NoCallback]
    /\ timer_queue = <<>>
    /\ callers = NoCallers
    /\ locks = [NoLocks EXCEPT !.pc = "recv_lock"]
    /\ req_queue = <<>>
    /\ reply = [c \in Conns |-> NoReply]
    /\ written = [c \in Conns |-> <<>>]
    /\ hist = HistInit
    /\ route_handlers = ServerRoutes
    /\ acceptor = "listening"
    /\ conn = [c \in Conns |-> NoConn]
    /\ script = [timers |-> MaxTimers, handler |-> ServerHandler,
                 routes |-> route_handlers]
    /\ InitLoop

\* The lock() calls of the main thread: the statement it is at, the mutex,
\* and the statement that follows with the guard held.
AcquireSteps ==
    { <<"recv_lock", "rx", "recv">>,
      <<"take_lock", "callbacks", "take_remove">>,
      <<"take_clean_lock", "cancelled", "take_clean">>,
      <<"reg_lock", "callbacks", "reg_insert">>,
      <<"cancel_lock1", "cancelled", "cancel_mark">>,
      <<"cancel_lock2", "callbacks", "cancel_remove">>,
      <<"check_lock", "cancelled", "check">>,
      <<"put_lock", "callbacks", "put">>,
      <<"clean_lock", "cancelled", "clean">>,
      <<"is_lock", "cancelled", "is_read">>,
      <<"rm_lock1", "callbacks", "rm_remove">>,
      <<"rm_lock2", "cancelled", "rm_clean">> }

\* Mutex::lock on the main thread: it returns when the mutex is free, and
\* waits while anyone, the caller included, owns it.
MutexLock(s) ==
    /\ locks.pc = s[1]
    /\ locks.owner[s[2]] = "none"
    /\ locks' = [locks EXCEPT !.pc = s[3], !.owner[s[2]] = "main"]
    /\ UNCHANGED <<reg, loan, timer_queue, task, callers, hist>>
    /\ UNCHANGED serverVars
    /\ UNCHANGED connVars

\* try_recv_timer_event: recv_timeout(0) under the guard of rx, which is
\* dropped at the return. With no event drain_timers returns and the loop
\* comes back to it after its wait for a request.
LockedRecv ==
    /\ locks.pc = "recv"
    /\ IF timer_queue = <<>>
       THEN /\ locks' = [locks EXCEPT !.pc = "recv_lock", !.owner["rx"] = "none"]
            /\ UNCHANGED timer_queue
       ELSE /\ locks' = [locks EXCEPT !.pc = "take_lock",
                                      !.id = Head(timer_queue),
                                      !.owner["rx"] = "none"]
            /\ timer_queue' = Tail(timer_queue)
    /\ UNCHANGED <<reg, loan, task, callers, hist>>
    /\ UNCHANGED serverVars
    /\ UNCHANGED connVars

\* Faulty variant of LockedTake: the guard of the callbacks is still held
\* when an Interval callback is called.
LockedTakeHolding ==
    /\ locks.pc = "take_remove"
    /\ LET cb == reg.callbacks[locks.id]
       IN  CASE cb = NoCallback ->
                  /\ locks' = [locks EXCEPT !.pc = "recv_lock",
                                            !.owner["callbacks"] = "none"]
                  /\ UNCHANGED <<reg, loan, disp, running>>
             [] cb = "Timeout" ->
                  /\ reg' = [reg EXCEPT !.callbacks[locks.id] = NoCallback,
                                        !.pending = fetch_sub(@)]
                  /\ locks' = [locks EXCEPT !.pc = "take_clean_lock", !.cb = cb]
                  /\ UNCHANGED <<loan, disp, running>>
             [] cb = "Interval" ->
                  /\ reg' = [reg EXCEPT !.callbacks[locks.id] = NoCallback]
                  /\ loan' = [loan EXCEPT ![locks.id] = cb]
                  /\ locks' = [locks EXCEPT !.pc = "call", !.cb = cb]
                  /\ disp' = DispAt("timer_cb", locks.id, cb, 0)
                  /\ running' = Append(running, Invocation("main", "timer_cb"))
    /\ UNCHANGED <<timer_queue, task, callers, hist>>
    /\ UNCHANGED <<route_handlers, acceptor, req_queue, script>>
    /\ UNCHANGED connVars

\* take_timer_callback under the guard cbs: remove the entry. None returns
\* at once; a Timeout entry is counted down and goes on to the marker with
\* cbs held; an Interval entry is returned, and drain_timers calls it.
LockedTake ==
    /\ locks.pc = "take_remove"
    /\ LET cb == reg.callbacks[locks.id]
       IN  CASE cb = NoCallback ->
                  /\ locks' = [locks EXCEPT !.pc = "recv_lock",
                                            !.owner["callbacks"] = "none"]
                  /\ UNCHANGED <<reg, loan, disp, running>>
             [] cb = "Timeout" ->
                  /\ reg' = [reg EXCEPT !.callbacks[locks.id] = NoCallback,
                                        !.pending = fetch_sub(@)]
                  /\ locks' = [locks EXCEPT !.pc = "take_clean_lock", !.cb = cb]
                  /\ UNCHANGED <<loan, disp, running>>
             [] cb = "Interval" ->
                  /\ reg' = [reg EXCEPT !.callbacks[locks.id] = NoCallback]
                  /\ loan' = [loan EXCEPT ![locks.id] = cb]
                  /\ locks' = [locks EXCEPT !.pc = "call", !.cb = cb,
                                            !.owner["callbacks"] = "none"]
                  /\ disp' = DispAt("timer_cb", locks.id, cb, 0)
                  /\ running' = Append(running, Invocation("main", "timer_cb"))
    /\ UNCHANGED <<timer_queue, task, callers, hist>>
    /\ UNCHANGED <<route_handlers, acceptor, req_queue, script>>
    /\ UNCHANGED connVars

\* The Timeout arm of take_timer_callback under both guards: the marker is
\* removed, the function returns and drops them, and drain_timers calls the
\* callback.
LockedTakeClean ==
    /\ locks.pc = "take_clean"
    /\ reg' = [reg EXCEPT !.cancelled = @ \ {locks.id}]
    /\ locks' = [locks EXCEPT !.pc = "call",
                              !.owner["cancelled"] = "none",
                              !.owner["callbacks"] = "none"]
    /\ disp' = DispAt("timer_cb", locks.id, locks.cb, 0)
    /\ running' = Append(running, Invocation("main", "timer_cb"))
    /\ UNCHANGED <<loan, timer_queue, task, callers, hist>>
    /\ UNCHANGED <<route_handlers, acceptor, req_queue, script>>
    /\ UNCHANGED connVars

\* The callback calls setTimeout / setInterval: next_timer_id, then
\* register_timer.
CallbackSetTimer(ty) ==
    /\ locks.pc = "call"
    /\ reg.next_id <= script.timers
    /\ LET a == next_timer_id(reg)
       IN  /\ reg' = a.reg
           /\ locks' = [locks EXCEPT !.pc = "reg_lock",
                                     !.call = [id |-> a.id, cb |-> ty]]
    /\ UNCHANGED <<loan, timer_queue, task, callers, hist>>
    /\ UNCHANGED serverVars
    /\ UNCHANGED connVars

\* register_timer under the guard of the callbacks; the script call then
\* spawns the scheduling task and returns to the callback.
LockedRegister ==
    /\ locks.pc = "reg_insert"
    /\ reg' = register_timer(reg, locks.call.id, locks.call.cb)
    /\ task' = [task EXCEPT ![locks.call.id] =
                   IF locks.call.cb = "Timeout" THEN "once" ELSE "repeat"]
    /\ locks' = [locks EXCEPT !.pc = "call", !.call = NoCall,
                              !.owner["callbacks"] = "none"]
    /\ UNCHANGED <<loan, timer_queue, callers, hist>>
    /\ UNCHANGED serverVars
    /\ UNCHANGED connVars

\* The callback calls clearTimeout / clearInterval: cancel_timer(id).
CallbackCancel(id) ==
    /\ locks.pc = "call"
    /\ id <= script.timers
    /\ locks' = [locks EXCEPT !.pc = "cancel_lock1",
                              !.call = [id |-> id, cb |-> NoCallback]]
    /\ UNCHANGED <<reg, loan, timer_queue, task, callers, hist>>
    /\ UNCHANGED serverVars
    /\ UNCHANGED connVars

\* cancel_timer, first statement: the marker is inserted under the guard of
\* the set, dropped at the end of the statement.
LockedCancelMark ==
    /\ locks.pc = "cancel_mark"
    /\ reg' = [reg EXCEPT !.cancelled = @ \cup {locks.call.id}]
    /\ locks' = [locks EXCEPT !.pc = "cancel_lock2",
                              !.owner["cancelled"] = "none"]
    /\ UNCHANGED <<loan, timer_queue, task, callers, hist>>
    /\ UNCHANGED serverVars
    /\ UNCHANGED connVars

\* cancel_timer, second statement: the entry is removed under the guard of
\* the callbacks, dropped at the end of the condition, and counted down if
\* there was one.
LockedCancelRemove ==
    /\ locks.pc = "cancel_remove"
    /\ reg' = IF reg.callbacks[locks.call.id] # NoCallback
              THEN [reg EXCEPT !.callbacks[locks.call.id] = NoCallback,
                               !.pending = fetch_sub(@)]
              ELSE reg
    /\ locks' = [locks EXCEPT !.pc = "call", !.call = NoCall,
                              !.owner["callbacks"] = "none"]
    /\ UNCHANGED <<loan, timer_queue, task, callers, hist>>
    /\ UNCHANGED serverVars
    /\ UNCHANGED connVars

\* func.call returns: a Timeout callback is dropped and the loop of
\* drain_timers goes on, an Interval callback goes to
\* restore_timer_callback.
CallbackReturn ==
    /\ locks.pc = "call"
    /\ running' = Pop(running)
    /\ disp' = DispAt("drain", 0, NoCallback, 0)
    /\ locks' = [locks EXCEPT !.pc = IF locks.cb = "Interval"
                                     THEN "check_lock" ELSE "recv_lock"]
    /\ UNCHANGED <<reg, loan, timer_queue, task, callers, hist>>
    /\ UNCHANGED <<route_handlers, acceptor, req_queue, script>>
    /\ UNCHANGED connVars

\* restore_timer_callback: is_timer_cancelled under the guard of the set,
\* dropped at its return; a cancelled timer is counted down.
LockedRestoreCheck ==
    /\ locks.pc = "check"
    /\ IF is_timer_cancelled(reg, locks.id)
       THEN /\ reg' = [reg EXCEPT !.pending = fetch_sub(@)]
            /\ locks' = [locks EXCEPT !.pc = "clean_lock",
                                      !.owner["cancelled"] = "none"]
       ELSE /\ locks' = [locks EXCEPT !.pc = "put_lock",
                                      !.owner["cancelled"] = "none"]
            /\ UNCHANGED reg
    /\ UNCHANGED <<loan, timer_queue, task, callers, hist>>
    /\ UNCHANGED serverVars
    /\ UNCHANGED connVars

\* restore_timer_callback, not cancelled: the entry is inserted again under
\* the guard of the callbacks.
LockedRestorePut ==
    /\ locks.pc = "put"
    /\ reg' = [reg EXCEPT !.callbacks[locks.id] = locks.cb]
    /\ loan' = [loan EXCEPT ![locks.id] = NoCallback]
    /\ locks' = [locks EXCEPT !.pc = "recv_lock", !.owner["callbacks"] = "none"]
    /\ UNCHANGED <<timer_queue, task, callers, hist>>
    /\ UNCHANGED serverVars
    /\ UNCHANGED connVars

\* restore_timer_callback, cancelled: the marker is removed under the guard
\* of the set and the callback is dropped.
LockedRestoreClean ==
    /\ locks.pc = "clean"
    /\ reg' = [reg EXCEPT !.cancelled = @ \ {locks.id}]
    /\ loan' = [loan EXCEPT ![locks.id] = NoCallback]
    /\ locks' = [locks EXCEPT !.pc = "recv_lock", !.owner["cancelled"] = "none"]
    /\ UNCHANGED <<timer_queue, task, callers, hist>>
    /\ UNCHANGED serverVars
    /\ UNCHANGED connVars

\* The sleep of timer t elapses and its task calls is_timer_cancelled: it
\* takes the guard of the set when the mutex is free.
TaskLock(t) ==
    /\ task[t] \in Sleeping
    /\ locks.owner["cancelled"] = "none"
    /\ locks' = [locks EXCEPT !.owner["cancelled"] = "task", !.tid = t]
    /\ UNCHANGED <<reg, loan, timer_queue, task, callers, hist>>
    /\ UNCHANGED serverVars
    /\ UNCHANGED connVars

\* is_timer_cancelled returns to the task and drops the guard: the task
\* stops if it saw t cancelled, and goes on to post otherwise.
LockedTaskWake(t) ==
    /\ locks.owner["cancelled"] = "task"
    /\ locks.tid = t
    /\ task' = [task EXCEPT ![t] =
                   IF is_timer_cancelled(reg, t) THEN "stopped"
                   ELSE IF @ = "once" THEN "ready_once" ELSE "ready_repeat"]
    /\ locks' = [locks EXCEPT !.owner["cancelled"] = "none", !.tid = 0]
    /\ UNCHANGED <<reg, loan, timer_queue, callers, hist>>
    /\ UNCHANGED serverVars
    /\ UNCHANGED connVars

NextLocks ==
    \/ \E s \in AcquireSteps : MutexLock(s)
    \/ LockedRecv
    \/ LockedTake
    \/ LockedTakeClean
    \/ \E ty \in TimerTypes : CallbackSetTimer(ty)
    \/ LockedRegister
    \/ \E id \in TimerIds : CallbackCancel(id)
    \/ LockedCancelMark
    \/ LockedCancelRemove
    \/ CallbackReturn
    \/ LockedRestoreCheck
    \/ LockedRestorePut
    \/ LockedRestoreClean
    \/ \E t \in TimerIds : TaskLock(t)
    \/ \E t \in TimerIds : LockedTaskWake(t)
    \/ \E t \in TimerIds : TaskPost(t)

SpecLocks == InitLocks /\ [][NextLocks]_vars

\* ------------------------------------------------------------------------
\* SpecThreads: the registry API called from several threads, one mutex
\* operation or atomic operation at a time
\* ------------------------------------------------------------------------

ApiOps == {"register", "cancel", "is_cancelled", "take", "restore", "remove",
           "recv", "post"}
ApiIds == 1..MaxLoopTimers
ApiThreads == 1..MaxApiThreads

\* A thread inside a call: the statement it is at, the id and the callback
\* the call was made with, whether the call was made after register_timer
\* of that id had returned, and the calls the thread has made.
ThreadAt(pc, id, cb, after, calls) ==
    [pc |-> pc, id |-> id, cb |-> cb, after |-> after, calls |-> calls]

\* The name of thread t as the owner of a mutex.
Owner(t) == ToString(t)

\* The first statement of each function.
EntryPc(op) ==
    CASE op = "register" -> "reg_lock"
      [] op = "cancel" -> "cancel_lock1"
      [] op = "is_cancelled" -> "is_lock"
      [] op = "take" -> "take_lock"
      [] op = "restore" -> "check_lock"
      [] op = "remove" -> "rm_lock1"
      [] op = "recv" -> "recv_lock"

InitCalls(made) ==
    /\ reg = RegistryInit
    /\ loan = [t \in TimerIds |-> NoCallback]
    /\ timer_queue = <<>>
    /\ task = [t \in TimerIds |-> "none"]
    /\ callers = [th |-> [t \in ApiThreads |->
                              ThreadAt("idle", 0, NoCallback, FALSE, made)],
                  log |-> <<>>,
                  known |-> {},   \* ids whose register_timer has returned
                  done |-> {}]    \* ids a cancel_timer called after that
                                  \* has returned for
    /\ locks = NoLocks
    /\ hist = HistInit
    /\ route_handlers = ServerRoutes
    /\ acceptor = "listening"
    /\ conn = [c \in Conns |-> NoConn]
    /\ script = [timers |-> MaxLoopTimers, handler |-> ServerHandler,
                 routes |-> route_handlers]
    /\ req_queue = <<>>
    /\ reply = [c \in Conns |-> NoReply]
    /\ written = [c \in Conns |-> <<>>]
    /\ InitLoop

InitThreads == InitCalls(0)

\* Thread t calls a function of the API. register is called with the id
\* next_timer_id hands out; restore_timer_callback is called by a thread
\* that holds the entry take_timer_callback returned.
ApiCall(t, op, id, cb) ==
    /\ callers.th[t].pc = "idle"
    /\ callers.th[t].calls < MaxCalls
    /\ op \notin {"post"}
    /\ CASE op = "register" -> id = reg.next_id /\ cb \in TimerTypes
         [] op = "restore" ->
               /\ loan[id] # NoCallback
               /\ cb = loan[id]
               /\ \A u \in ApiThreads :
                     ~(callers.th[u].id = id
                       /\ callers.th[u].pc \in {"check_lock", "check", "put_lock",
                                                "put", "restore_sub", "clean_lock",
                                                "clean"})
         [] OTHER -> cb = NoCallback
    /\ reg' = IF op = "register" THEN next_timer_id(reg).reg ELSE reg
    /\ callers' = [callers EXCEPT !.th[t] =
                      ThreadAt(EntryPc(op), id, cb, id \in callers.known,
                               callers.th[t].calls + 1)]
    /\ UNCHANGED <<loan, timer_queue, task, locks, hist>>
    /\ UNCHANGED serverVars
    /\ UNCHANGED connVars

\* Thread t calls send_timer_ready(id): one send on the channel.
ApiPost(t, id) ==
    /\ callers.th[t].pc = "idle"
    /\ callers.th[t].calls < MaxCalls
    /\ Len(timer_queue) < MaxQueue
    /\ timer_queue' = send_timer_ready(timer_queue, id)
    /\ callers' = [callers EXCEPT !.th[t].calls = @ + 1]
    /\ UNCHANGED <<reg, loan, task, locks, hist>>
    /\ UNCHANGED serverVars
    /\ UNCHANGED connVars

\* Mutex::lock on thread t: it returns when the mutex is free.
ApiLock(t, s) ==
    /\ callers.th[t].pc = s[1]
    /\ locks.owner[s[2]] = "none"
    /\ locks' = [locks EXCEPT !.owner[s[2]] = Owner(t)]
    /\ callers' = [callers EXCEPT !.th[t].pc = s[3]]
    /\ UNCHANGED <<reg, loan, timer_queue, task, hist>>
    /\ UNCHANGED serverVars
    /\ UNCHANGED connVars

\* The thread returns from its call.
Returned(t) ==
    [callers EXCEPT !.th[t] = ThreadAt("idle", 0, NoCallback, FALSE, @.calls)]
CancelReturned(t) ==
    [Returned(t) EXCEPT !.done = IF callers.th[t].after
                                 THEN @ \cup {callers.th[t].id} ELSE @]
At(t, pc) == [callers EXCEPT !.th[t].pc = pc]
Unlock(l) == [locks EXCEPT !.owner[l] = "none"]

\* register_timer: the insert under the guard, then the fetch_add.
ApiRegister(t) ==
    LET th == callers.th[t]
    IN  /\ \/ /\ th.pc = "reg_insert"
              /\ reg' = [reg EXCEPT !.callbacks[th.id] = th.cb]
              /\ locks' = Unlock("callbacks")
              /\ callers' = At(t, "reg_add")
           \/ /\ th.pc = "reg_add"
              /\ reg' = [reg EXCEPT !.pending = fetch_add(@)]
              /\ callers' = [Returned(t) EXCEPT !.known = @ \cup {th.id}]
              /\ UNCHANGED locks
        /\ UNCHANGED <<loan, timer_queue, task, hist>>
        /\ UNCHANGED serverVars
        /\ UNCHANGED connVars

\* Faulty variant of ApiCancel: the guard of the set is held until the
\* function returns.
ApiCancelNested(t) ==
    LET th == callers.th[t]
    IN  /\ \/ /\ th.pc = "cancel_mark"
              /\ reg' = [reg EXCEPT !.cancelled = @ \cup {th.id}]
              /\ callers' = At(t, "cancel_lock2")
              /\ UNCHANGED <<locks, hist>>
           \/ /\ th.pc = "cancel_remove"
              /\ locks' = [locks EXCEPT !.owner["callbacks"] = "none",
                                        !.owner["cancelled"] = "none"]
              /\ IF reg.callbacks[th.id] # NoCallback
                 THEN /\ reg' = [reg EXCEPT !.callbacks[th.id] = NoCallback]
                      /\ callers' = At(t, "cancel_sub")
                      /\ UNCHANGED hist
                 ELSE /\ callers' = CancelReturned(t)
                      /\ hist' = [hist EXCEPT !.cancelled = @ \cup {th.id}]
                      /\ UNCHANGED reg
           \/ /\ th.pc = "cancel_sub"
              /\ reg' = [reg EXCEPT !.pending = fetch_sub(@)]
              /\ callers' = CancelReturned(t)
              /\ hist' = [hist EXCEPT !.cancelled = @ \cup {th.id}]
              /\ UNCHANGED locks
        /\ UNCHANGED <<loan, timer_queue, task>>
        /\ UNCHANGED serverVars
        /\ UNCHANGED connVars

\* cancel_timer: the marker inserted under the guard of the set; the entry
\* removed under the guard of the callbacks; the fetch_sub if there was one.
ApiCancel(t) ==
    LET th == callers.th[t]
    IN  /\ \/ /\ th.pc = "cancel_mark"
              /\ reg' = [reg EXCEPT !.cancelled = @ \cup {th.id}]
              /\ locks' = Unlock("cancelled")
              /\ callers' = At(t, "cancel_lock2")
              /\ UNCHANGED hist
           \/ /\ th.pc = "cancel_remove"
              /\ locks' = Unlock("callbacks")
              /\ IF reg.callbacks[th.id] # NoCallback
                 THEN /\ reg' = [reg EXCEPT !.callbacks[th.id] = NoCallback]
                      /\ callers' = At(t, "cancel_sub")
                      /\ UNCHANGED hist
                 ELSE /\ callers' = CancelReturned(t)
                      /\ hist' = [hist EXCEPT !.cancelled = @ \cup {th.id}]
                      /\ UNCHANGED reg
           \/ /\ th.pc = "cancel_sub"
              /\ reg' = [reg EXCEPT !.pending = fetch_sub(@)]
              /\ callers' = CancelReturned(t)
              /\ hist' = [hist EXCEPT !.cancelled = @ \cup {th.id}]
              /\ UNCHANGED locks
        /\ UNCHANGED <<loan, timer_queue, task>>
        /\ UNCHANGED serverVars
        /\ UNCHANGED connVars

\* is_timer_cancelled: the read under the guard of the set.
ApiIsCancelled(t) ==
    /\ callers.th[t].pc = "is_read"
    /\ locks' = Unlock("cancelled")
    /\ callers' = Returned(t)
    /\ UNCHANGED <<reg, loan, timer_queue, task, hist>>
    /\ UNCHANGED serverVars
    /\ UNCHANGED connVars

\* take_timer_callback: the remove under the guard cbs; for a Timeout entry
\* the fetch_sub and the removal of the marker with cbs still held.
ApiTake(t) ==
    LET th == callers.th[t]
        cb == reg.callbacks[th.id]
    IN  /\ \/ /\ th.pc = "take_remove"
              /\ CASE cb = NoCallback ->
                        /\ locks' = Unlock("callbacks")
                        /\ callers' = Returned(t)
                        /\ UNCHANGED <<reg, loan, hist>>
                   [] cb = "Timeout" ->
                        /\ reg' = [reg EXCEPT !.callbacks[th.id] = NoCallback]
                        /\ callers' = At(t, "take_sub")
                        /\ hist' = [hist EXCEPT
                                      !.fired = @ \cup {th.id},
                                      !.stale = IF th.id \in hist.cancelled
                                                THEN @ \cup {th.id} ELSE @]
                        /\ UNCHANGED <<locks, loan>>
                   [] cb = "Interval" ->
                        /\ reg' = [reg EXCEPT !.callbacks[th.id] = NoCallback]
                        /\ loan' = [loan EXCEPT ![th.id] = cb]
                        /\ locks' = Unlock("callbacks")
                        /\ callers' = Returned(t)
                        /\ hist' = [hist EXCEPT
                                      !.fired = @ \cup {th.id},
                                      !.stale = IF th.id \in hist.cancelled
                                                THEN @ \cup {th.id} ELSE @]
           \/ /\ th.pc = "take_sub"
              /\ reg' = [reg EXCEPT !.pending = fetch_sub(@)]
              /\ callers' = At(t, "take_clean_lock")
              /\ UNCHANGED <<locks, loan, hist>>
           \/ /\ th.pc = "take_clean"
              /\ reg' = [reg EXCEPT !.cancelled = @ \ {th.id}]
              /\ locks' = [locks EXCEPT !.owner["callbacks"] = "none",
                                        !.owner["cancelled"] = "none"]
              /\ callers' = Returned(t)
              /\ UNCHANGED <<loan, hist>>
        /\ UNCHANGED <<timer_queue, task>>
        /\ UNCHANGED serverVars
        /\ UNCHANGED connVars

\* restore_timer_callback: is_timer_cancelled; then the insert under the
\* guard of the callbacks, or the fetch_sub and the removal of the marker
\* under the guard of the set.
ApiRestore(t) ==
    LET th == callers.th[t]
    IN  /\ \/ /\ th.pc = "check"
              /\ locks' = Unlock("cancelled")
              /\ callers' = At(t, IF is_timer_cancelled(reg, th.id)
                                  THEN "restore_sub" ELSE "put_lock")
              /\ UNCHANGED <<reg, loan>>
           \/ /\ th.pc = "put"
              /\ reg' = [reg EXCEPT !.callbacks[th.id] = th.cb]
              /\ loan' = [loan EXCEPT ![th.id] = NoCallback]
              /\ locks' = Unlock("callbacks")
              /\ callers' = Returned(t)
           \/ /\ th.pc = "restore_sub"
              /\ reg' = [reg EXCEPT !.pending = fetch_sub(@)]
              /\ callers' = At(t, "clean_lock")
              /\ UNCHANGED <<locks, loan>>
           \/ /\ th.pc = "clean"
              /\ reg' = [reg EXCEPT !.cancelled = @ \ {th.id}]
              /\ loan' = [loan EXCEPT ![th.id] = NoCallback]
              /\ locks' = Unlock("cancelled")
              /\ callers' = Returned(t)
        /\ UNCHANGED <<timer_queue, task, hist>>
        /\ UNCHANGED serverVars
        /\ UNCHANGED connVars

\* remove_timer_callback: the remove under the guard of the callbacks, the
\* fetch_sub if there was an entry, the removal of the marker under the
\* guard of the set.
ApiRemove(t) ==
    LET th == callers.th[t]
    IN  /\ \/ /\ th.pc = "rm_remove"
              /\ locks' = Unlock("callbacks")
              /\ IF reg.callbacks[th.id] # NoCallback
                 THEN /\ reg' = [reg EXCEPT !.callbacks[th.id] = NoCallback]
                      /\ callers' = At(t, "rm_sub")
                 ELSE /\ callers' = At(t, "rm_lock2")
                      /\ UNCHANGED reg
           \/ /\ th.pc = "rm_sub"
              /\ reg' = [reg EXCEPT !.pending = fetch_sub(@)]
              /\ callers' = At(t, "rm_lock2")
              /\ UNCHANGED locks
           \/ /\ th.pc = "rm_clean"
              /\ reg' = [reg EXCEPT !.cancelled = @ \ {th.id}]
              /\ locks' = Unlock("cancelled")
              /\ callers' = Returned(t)
        /\ UNCHANGED <<loan, timer_queue, task, hist>>
        /\ UNCHANGED serverVars
        /\ UNCHANGED connVars

\* try_recv_timer_event: recv_timeout under the guard of rx.
ApiRecv(t) ==
    /\ callers.th[t].pc = "recv"
    /\ timer_queue' = IF timer_queue = <<>> THEN timer_queue ELSE Tail(timer_queue)
    /\ locks' = Unlock("rx")
    /\ callers' = Returned(t)
    /\ UNCHANGED <<reg, loan, task, hist>>
    /\ UNCHANGED serverVars
    /\ UNCHANGED connVars

\* The steps of thread t.
ThreadStep(t) ==
    \/ \E s \in AcquireSteps : ApiLock(t, s)
    \/ ApiRegister(t)
    \/ ApiCancel(t)
    \/ ApiIsCancelled(t)
    \/ ApiTake(t)
    \/ ApiRestore(t)
    \/ ApiRemove(t)
    \/ ApiRecv(t)

NextThreads ==
    \/ \E t \in ApiThreads, op \in ApiOps, id \in ApiIds,
          cb \in TimerTypes \cup {NoCallback} : ApiCall(t, op, id, cb)
    \/ \E t \in ApiThreads, id \in ApiIds : ApiPost(t, id)
    \/ \E t \in ApiThreads : ThreadStep(t)

SpecThreads == InitThreads /\ [][NextThreads]_vars

\* SpecRace: the threads call register_timer, cancel_timer,
\* take_timer_callback and restore_timer_callback only.
RaceOps == {"register", "cancel", "take", "restore"}

NextRace ==
    \/ \E t \in ApiThreads, op \in RaceOps, id \in ApiIds,
          cb \in TimerTypes \cup {NoCallback} : ApiCall(t, op, id, cb)
    \/ \E t \in ApiThreads, s \in AcquireSteps : ApiLock(t, s)
    \/ \E t \in ApiThreads : ApiRegister(t)
    \/ \E t \in ApiThreads : ApiCancel(t)
    \/ \E t \in ApiThreads : ApiTake(t)
    \/ \E t \in ApiThreads : ApiRestore(t)

SpecRace == InitThreads /\ [][NextRace]_vars

\* Every thread inside a call executes its next statement: the scheduler
\* runs a runnable thread, and a mutex that is released is handed to a
\* thread that waits for it. Each thread makes LiveCalls calls.
InitThreadsLive == InitCalls(MaxCalls - LiveCalls)

SpecThreadsLive ==
    /\ InitThreadsLive
    /\ [][NextThreads]_vars
    /\ \A t \in ApiThreads : WF_vars(ThreadStep(t))

\* ------------------------------------------------------------------------
\* SpecAlloc: threads that call next_timer_id concurrently
\* ------------------------------------------------------------------------

InitAlloc == InitRegistry

\* Thread t calls next_timer_id.
AllocCall(t) ==
    /\ callers.th[t].pc = "idle"
    /\ Len(callers.log)
         + Cardinality({u \in Threads : callers.th[u].pc # "idle"}) < MaxAllocs
    /\ callers' = [callers EXCEPT !.th[t] =
                      [pc |-> "called", id |-> 0, before |-> Len(callers.log)]]
    /\ UNCHANGED <<reg, loan, timer_queue, task, locks, hist>>
    /\ UNCHANGED serverVars
    /\ UNCHANGED connVars

\* TIMER_ID_COUNTER.fetch_add(1, SeqCst) of thread t: one atomic step.
AllocFetch(t) ==
    /\ callers.th[t].pc = "called"
    /\ LET a == next_timer_id(reg)
       IN  /\ reg' = a.reg
           /\ callers' = [callers EXCEPT !.th[t] =
                             [@ EXCEPT !.pc = "fetched", !.id = a.id]]
    /\ UNCHANGED <<loan, timer_queue, task, locks, hist>>
    /\ UNCHANGED serverVars
    /\ UNCHANGED connVars

\* next_timer_id returns to thread t.
AllocReturn(t) ==
    /\ callers.th[t].pc = "fetched"
    /\ callers' = [callers EXCEPT
                      !.th[t] = IdleThread,
                      !.log = Append(@, [id |-> callers.th[t].id,
                                         before |-> callers.th[t].before])]
    /\ UNCHANGED <<reg, loan, timer_queue, task, locks, hist>>
    /\ UNCHANGED serverVars
    /\ UNCHANGED connVars

NextAlloc ==
    \/ \E t \in Threads : AllocCall(t)
    \/ \E t \in Threads : AllocFetch(t)
    \/ \E t \in Threads : AllocReturn(t)

SpecAlloc == InitAlloc /\ [][NextAlloc]_vars

\* ------------------------------------------------------------------------
\* SpecConn: one connection with any stream of ParseStreams, and the loop
\* ------------------------------------------------------------------------

\* s followed by the lines of t.
Then(lines, more) == lines \o more

\* n header lines, the first d of them with the header names 1..d and the
\* others repeating the name d; d = 0 makes them lines without a colon.
HeaderLines(n, d) ==
    [i \in 1..n |->
        IF d = 0 THEN BareLine(20)
        ELSE HeaderLine(IF i <= d THEN i ELSE d, TextVal, 20)]

\* The lengths tried against a limit: a short line, and the lengths around
\* the limit.
LineLens(limit) == {16} \cup ((limit - LimitSlack)..(limit + LimitSlack))

Tails == {"eof", "stall"}

\* A request line alone: its tokens, its length, with or without terminator.
RequestLineStreams ==
    { StreamOf(IF nl
               THEN <<RequestLine(toks, len, TRUE), BlankLine>>
               ELSE <<RequestLine(toks, len, FALSE)>>, tail) :
        toks \in { <<"GET">>, <<"GET", "/a", "HTTP/1.1">>, <<"head", "/a">> },
        len \in LineLens(MAX_REQUEST_LINE),
        nl \in BOOLEAN,
        tail \in Tails }

HeaderCounts ==
    {0, 1} \cup ((MAX_HEADER_COUNT - LimitSlack)..(MAX_HEADER_COUNT + LimitSlack))

DistinctCounts(n) == {d \in 0..n : d <= 1 \/ d >= n - MaxRepeats}

\* A request line and n header lines, followed or not by the blank line.
HeaderCountStreams ==
    UNION { { StreamOf(Then(Then(<<RequestLine(<<"GET", "/a", "HTTP/1.1">>, 16, TRUE)>>,
                                 HeaderLines(n, d)),
                            IF blank THEN <<BlankLine>> ELSE <<>>), tail) :
                d \in DistinctCounts(n), blank \in BOOLEAN, tail \in Tails } :
            n \in HeaderCounts }

\* A request line and one header line of a length around the limit, with or
\* without terminator, or one that is not UTF-8.
HeaderLineStreams ==
    { StreamOf(IF nl
               THEN <<RequestLine(<<"GET", "/a", "HTTP/1.1">>, 16, TRUE),
                      [HeaderLine(1, TextVal, len) EXCEPT !.utf8 = utf8], BlankLine>>
               ELSE <<RequestLine(<<"GET", "/a", "HTTP/1.1">>, 16, TRUE),
                      [HeaderLine(1, TextVal, len) EXCEPT !.utf8 = utf8, !.nl = FALSE]>>,
               tail) :
        len \in LineLens(MAX_HEADER_LINE),
        nl \in BOOLEAN,
        utf8 \in BOOLEAN,
        tail \in Tails }

ContentLengths ==
    { IntVal(n) : n \in {0, 5} \cup
                        ((MAX_BODY_SIZE - LimitSlack)..(MAX_BODY_SIZE + LimitSlack)) }
    \cup {HugeVal, TextVal}

\* A request with a Content-Length header, followed or not by a second one,
\* and avail bytes of body.
BodyStreams ==
    { StreamOf(Then(Then(Then(<<RequestLine(<<"POST", "/a", "HTTP/1.1">>, 17, TRUE),
                                HeaderLine(ContentLengthKey, val, 20)>>,
                              IF second THEN <<HeaderLine(ContentLengthKey, IntVal(0), 20)>>
                              ELSE <<>>),
                         <<BlankLine>>),
                    IF avail > 0 THEN <<BodyBytes(avail)>> ELSE <<>>), tail) :
        val \in ContentLengths,
        second \in BOOLEAN,
        avail \in {0, 5, MAX_BODY_SIZE},
        tail \in Tails }

ParseStreams ==
    RequestLineStreams \cup HeaderCountStreams \cup HeaderLineStreams
        \cup BodyStreams

InitConn ==
    /\ InitIdle
    /\ route_handlers = ServerRoutes
    /\ acceptor = "listening"
    /\ conn = [c \in Conns |-> NoConn]
    /\ script = [timers |-> 0, handler |-> ServerHandler,
                 routes |-> route_handlers]
    /\ InitLoop

NextConn ==
    \/ \E stream \in ParseStreams : Accept(1, stream)
    \/ ConnParse(1)
    \/ ConnReply(1)
    \/ DrainDone
    \/ RecvRequest
    \/ RecvTimeout
    \/ \E ok \in BOOLEAN : HandlerReturn(ok)

SpecConn == InitConn /\ [][NextConn]_vars

\* ------------------------------------------------------------------------
\* SpecRoutes: one parsed request, any route table
\* ------------------------------------------------------------------------

RouteMethods == {"GET", "HEAD", "POST"}
RoutePaths == {"/a", "/b"}

\* The keys server:get, server:post, server:head and server:all register
\* for the path "/a" and for "*".
RouteKeys == (RouteMethods \cup {"ALL"}) \X {"/a", "*"}

RouteTables == SUBSET RouteKeys

RouteRequests ==
    { [method |-> m, path |-> p, headers |-> {}, body_len |-> 0] :
        m \in RouteMethods, p \in RoutePaths }

\* Connection 1 has parsed its request and sent it; the main thread enters
\* its loop.
InitRoutes ==
    /\ reg = RegistryInit
    /\ loan = [t \in TimerIds |-> NoCallback]
    /\ timer_queue = <<>>
    /\ task = [t \in TimerIds |-> "none"]
    /\ callers = NoCallers
    /\ locks = NoLocks
    /\ hist = HistInit
    /\ route_handlers \in RouteTables
    /\ acceptor = "listening"
    /\ script = [timers |-> 0, handler |-> ServerHandler,
                 routes |-> route_handlers]
    /\ InitLoop
    /\ \E request \in RouteRequests :
          conn = [c \in Conns |->
                    IF c = 1
                    THEN [st |-> "waiting", stream |-> NoStream,
                          request |-> request, alloc |-> 0]
                    ELSE NoConn]
    /\ req_queue = <<1>>
    /\ reply = [c \in Conns |-> IF c = 1 THEN [NoReply EXCEPT !.st = "open"]
                                 ELSE NoReply]
    /\ written = [c \in Conns |-> <<>>]

NextRoutes ==
    \/ DrainDone
    \/ RecvRequest
    \/ RecvTimeout
    \/ \E ok \in BOOLEAN : HandlerReturn(ok)
    \/ ConnReply(1)

SpecRoutes == InitRoutes /\ [][NextRoutes]_vars

\* ------------------------------------------------------------------------
\* SpecListen: route registrations made after server_listen took its copy
\* ------------------------------------------------------------------------

\* The keys the script registers late, and the tables it had at listen.
LateKeys == { <<"GET", "/a">>, <<"GET", "/b">>, <<"ALL", "*">> }
ListenTables == SUBSET { <<"GET", "/a">>, <<"GET", "/b">> }

\* Faulty variant of ScriptRoute: the table the loop resolves with is the
\* table of the server object itself.
ScriptRouteShared(key) ==
    /\ disp.pc \in ScriptPositions
    /\ key \notin script.routes
    /\ script' = [script EXCEPT !.routes = @ \cup {key}]
    /\ route_handlers' = route_handlers \cup {key}
    /\ UNCHANGED <<disp, running, acceptor, req_queue, hist>>
    /\ UNCHANGED timerVars
    /\ UNCHANGED connVars

\* server:get / post / head / all (path, handler) called by script code
\* while server_listen runs: routes.set(key, handler) on server._routes.
ScriptRoute(key) ==
    /\ disp.pc \in ScriptPositions
    /\ key \notin script.routes
    /\ script' = [script EXCEPT !.routes = @ \cup {key}]
    /\ UNCHANGED <<disp, running, route_handlers, acceptor, req_queue, hist>>
    /\ UNCHANGED timerVars
    /\ UNCHANGED connVars

\* server_listen has copied server._routes into route_handlers, spawned the
\* accept loop and called the listen callback; two connections have sent
\* their requests, a GET of /a and a GET of /b, in either order.
InitListen ==
    /\ reg = RegistryInit
    /\ loan = [t \in TimerIds |-> NoCallback]
    /\ timer_queue = <<>>
    /\ task = [t \in TimerIds |-> "none"]
    /\ callers = NoCallers
    /\ locks = NoLocks
    /\ hist = HistInit
    /\ route_handlers \in ListenTables
    /\ acceptor = "listening"
    /\ script = [timers |-> MaxScriptTimers, handler |-> ServerHandler,
                 routes |-> route_handlers]
    /\ InitListenCallback
    /\ conn = [c \in Conns |->
                 IF c <= 2
                 THEN [st |-> "waiting", stream |-> NoStream,
                       request |-> [method |-> "GET",
                                    path |-> IF c = 1 THEN "/a" ELSE "/b",
                                    headers |-> {}, body_len |-> 0],
                       alloc |-> 0]
                 ELSE NoConn]
    /\ req_queue \in { <<1, 2>>, <<2, 1>> }
    /\ reply = [c \in Conns |-> IF c <= 2 THEN [NoReply EXCEPT !.st = "open"]
                                 ELSE NoReply]
    /\ written = [c \in Conns |-> <<>>]

NextListen ==
    \/ \E key \in LateKeys : ScriptRoute(key)
    \/ ScriptSetTimer("Timeout")
    \/ \E t \in TimerIds : TaskWake(t)
    \/ \E t \in TimerIds : TaskPost(t)
    \/ ListenCallbackReturn(TRUE)
    \/ DrainTimer
    \/ DrainDone
    \/ TimerCallbackReturn(TRUE)
    \/ RecvRequest
    \/ RecvTimeout
    \/ \E ok \in BOOLEAN : HandlerReturn(ok)
    \/ \E c \in Conns : ConnReply(c)

SpecListen == InitListen /\ [][NextListen]_vars

\* ------------------------------------------------------------------------
\* SpecGone: connection tasks that go away while they await their reply
\* ------------------------------------------------------------------------

\* The task of connection c is dropped at its await of resp_rx: the
\* receiver of its reply channel and its sender of requests go with it.
ConnDropped(c) ==
    /\ conn[c].st = "waiting"
    /\ reply[c].st = "open"
    /\ conn' = [conn EXCEPT ![c] = [@ EXCEPT !.st = "gone"]]
    /\ UNCHANGED <<reply, written, hist>>
    /\ UNCHANGED serverVars
    /\ UNCHANGED timerVars

\* Two connections have sent their requests, each a GET of the routed /a or
\* of the unrouted /zz, in either order; server_listen is in the listen
\* callback.
InitGone ==
    /\ reg = RegistryInit
    /\ loan = [t \in TimerIds |-> NoCallback]
    /\ timer_queue = <<>>
    /\ task = [t \in TimerIds |-> "none"]
    /\ callers = NoCallers
    /\ locks = NoLocks
    /\ hist = HistInit
    /\ route_handlers = ServerRoutes
    /\ acceptor = "listening"
    /\ script = [timers |-> MaxScriptTimers, handler |-> ServerHandler,
                 routes |-> route_handlers]
    /\ InitListenCallback
    /\ \E p1 \in {"/a", "/zz"}, p2 \in {"/a", "/zz"} :
          conn = [c \in Conns |->
                    IF c <= 2
                    THEN [st |-> "waiting", stream |-> NoStream,
                          request |-> [method |-> "GET",
                                       path |-> IF c = 1 THEN p1 ELSE p2,
                                       headers |-> {}, body_len |-> 0],
                          alloc |-> 0]
                    ELSE NoConn]
    /\ req_queue \in { <<1, 2>>, <<2, 1>> }
    /\ reply = [c \in Conns |-> IF c <= 2 THEN [NoReply EXCEPT !.st = "open"]
                                 ELSE NoReply]
    /\ written = [c \in Conns |-> <<>>]

NextGone ==
    \/ \E c \in Conns : ConnDropped(c)
    \/ ScriptSetTimer("Timeout")
    \/ \E t \in TimerIds : TaskWake(t)
    \/ \E t \in TimerIds : TaskPost(t)
    \/ ListenCallbackReturn(TRUE)
    \/ DrainTimer
    \/ DrainDone
    \/ TimerCallbackReturn(TRUE)
    \/ RecvRequest
    \/ RecvTimeout
    \/ \E ok \in BOOLEAN : HandlerReturn(ok)
    \/ \E c \in Conns : ConnReply(c)

SpecGone == InitGone /\ [][NextGone]_vars

\* ------------------------------------------------------------------------
\* SpecHandler: one parsed request, any handler of Handlers
\* ------------------------------------------------------------------------

\* Tables a handler passes to ctx:json or returns: empty, arrays, integer
\* keys with a gap or from 2, a key 0, string keys, mixed keys, a boolean
\* key, a nested array.
HandlerTables ==
    LET a == LuaString(<<"a">>)
        b == LuaString(<<"b">>)
    IN  { LuaTable(<<>>),
          LuaTable(<< Entry(LuaInteger(1), a) >>),
          LuaTable(<< Entry(LuaInteger(1), a), Entry(LuaInteger(2), b) >>),
          LuaTable(<< Entry(LuaInteger(2), b), Entry(LuaInteger(1), a) >>),
          LuaTable(<< Entry(LuaInteger(1), a), Entry(LuaInteger(3), b) >>),
          LuaTable(<< Entry(LuaInteger(2), a) >>),
          LuaTable(<< Entry(LuaInteger(0), a), Entry(LuaInteger(1), b) >>),
          LuaTable(<< Entry(LuaString(<<"k">>), LuaInteger(1)) >>),
          LuaTable(<< Entry(LuaInteger(1), a), Entry(LuaString(<<"k">>), b) >>),
          LuaTable(<< Entry(LuaBoolean(TRUE), a) >>),
          LuaTable(<< Entry(LuaInteger(1),
                            LuaTable(<< Entry(LuaInteger(1), a) >>)) >>) }

\* What the handlers do about the body: nothing, a setter of the context
\* with a text or a value, an assignment to ctx._body.
HandlerBodyOps ==
    { <<>>,
      << CtxOp("status", LuaInteger(201)) >>,
      << CtxOp("text", LuaString(<<"hi">>)) >>,
      << CtxOp("text", LuaString(<<>>)) >>,
      << CtxOp("html", LuaString(<<"<p>", "hi">>)) >>,
      << CtxOp("json", LuaString(<<"say", "\"", "hi">>)) >>,
      << CtxOp("json", LuaNil) >>,
      << CtxOp("_body", LuaNil) >>,
      << CtxOp("_body", LuaInteger(7)) >> }
    \cup { << CtxOp("json", t) >> : t \in HandlerTables }

\* What they put in ctx._headers: nothing, a header of their own, the
\* framework's headers in several letter cases, a value that is not a
\* string, a value with a line break in it.
HandlerHeaderOps ==
    LET one == LuaString(<<"1">>)
    IN  { <<>>,
          << CtxOp("_headers", LuaTable(<< Entry(LuaString(<<"X-Id">>), one) >>)) >>,
          << CtxOp("_headers", LuaTable(<< Entry(LuaString(<<"Content-Type">>), one) >>)) >>,
          << CtxOp("_headers", LuaTable(<< Entry(LuaString(<<"CONTENT-LENGTH">>), one) >>)) >>,
          << CtxOp("_headers", LuaTable(<< Entry(LuaString(<<"content-length">>), one),
                                           Entry(LuaString(<<"X-Id">>), LuaInteger(5)),
                                           Entry(LuaString(<<"content-type">>), one) >>)) >>,
          << CtxOp("_headers", LuaTable(<< Entry(LuaString(<<"X-Id">>),
                LuaString(<<"1", "\r\n", "Content-Length", ": ", "0">>)) >>)) >> }

\* The values they return.
HandlerResults ==
    { LuaNil, LuaString(<<"ret">>), LuaInteger(5), LuaBoolean(TRUE),
      LuaTable(<< Entry(LuaInteger(1), LuaString(<<"a">>)) >>) }

Handlers ==
    { Handler(b \o h, r) :
        b \in HandlerBodyOps, h \in HandlerHeaderOps, r \in HandlerResults }

\* Connection 1 has parsed a GET or a HEAD of the routed path and sent it;
\* the main thread enters its loop.
InitHandler ==
    /\ reg = RegistryInit
    /\ loan = [t \in TimerIds |-> NoCallback]
    /\ timer_queue = <<>>
    /\ task = [t \in TimerIds |-> "none"]
    /\ callers = NoCallers
    /\ locks = NoLocks
    /\ hist = HistInit
    /\ route_handlers = ServerRoutes
    /\ acceptor = "listening"
    /\ \E h \in Handlers : script = [timers |-> 0, handler |-> h,
                                     routes |-> route_handlers]
    /\ InitLoop
    /\ \E m \in {"GET", "HEAD"} :
          conn = [c \in Conns |->
                    IF c = 1
                    THEN [st |-> "waiting", stream |-> NoStream,
                          request |-> [method |-> m, path |-> "/a",
                                       headers |-> {}, body_len |-> 0],
                          alloc |-> 0]
                    ELSE NoConn]
    /\ req_queue = <<1>>
    /\ reply = [c \in Conns |-> IF c = 1 THEN [NoReply EXCEPT !.st = "open"]
                                 ELSE NoReply]
    /\ written = [c \in Conns |-> <<>>]

NextHandler ==
    \/ DrainDone
    \/ RecvRequest
    \/ RecvTimeout
    \/ \E ok \in BOOLEAN : HandlerReturn(ok)
    \/ ConnReply(1)

SpecHandler == InitHandler /\ [][NextHandler]_vars

\* ------------------------------------------------------------------------
\* Properties of the timer registry
\* ------------------------------------------------------------------------

Present(R) == {t \in TimerIds : R.callbacks[t] # NoCallback}
OnLoan == {t \in TimerIds : loan[t] # NoCallback}

C2_SingleInvocation ==
    /\ Len(running) <= 1
    /\ \A i \in 1..Len(running) : running[i].thread = "main"
    /\ (running # <<>>) <=> (disp.pc \in ScriptPositions)

\* A handler runs while a timer notification is queued and another
\* connection waits for the main thread.
C2_Witness ==
    /\ disp.pc = "handler"
    /\ Len(running) = 1
    /\ timer_queue # <<>>
    /\ \E c \in Conns : c # disp.conn /\ conn[c].st = "waiting" /\ reply[c].st = "open"

\* ------------------------------------------------------------------------
\* Properties of cancellation
\* ------------------------------------------------------------------------

\* C3: a timer cancelled while its scheduling task sleeps has its callback
\* invoked at no later time, whatever the order of the task's steps, the
\* script's calls and the drain passes.
C3_CancelBeforeWake ==
    \A t \in hist.early : t \notin hist.stale /\ reg.callbacks[t] = NoCallback

\* A timer was cancelled during its first sleep, its task has woken since,
\* and the loop has drained and run other code.
C3_Witness ==
    \E t \in hist.early :
        /\ t \notin hist.fired
        /\ task[t] = "stopped"
        /\ hist.fired # {}
        /\ disp.pc = "recv"

\* C4: the drain pass that receives the notification of a timer cancelled
\* after the notification was posted and before its checkout consumes the
\* notification and invokes nothing: no invocation starts, the main thread
\* stays in the drain pass and the registry is left as it is.
C4_DroppedAtCheckout ==
    [][ (/\ disp.pc = "drain"
         /\ timer_queue # <<>>
         /\ Head(timer_queue) \in hist.late
         /\ timer_queue' = Tail(timer_queue))
        => (/\ running' = running
            /\ disp' = disp
            /\ reg' = reg
            /\ Head(timer_queue) \notin hist'.stale) ]_vars

\* The notification of a timer cancelled after the post found no entry.
C4_Witness ==
    \E t \in hist.late : t \in hist.dropped /\ t \in hist.posted /\ t \notin hist.stale

\* C5: an Interval timer cancelled from inside its own callback is not put
\* back when the callback returns, is never invoked again, whatever
\* notifications of it are queued or posted later, and makes
\* PENDING_TIMER_COUNT go down once: not before the callback returns, once
\* when it returns, never again.
C5_SelfCancel ==
    \A t \in hist.selfc :
        /\ t \notin hist.stale
        /\ reg.callbacks[t] = NoCallback
        /\ hist.decs[t] = IF loan[t] # NoCallback THEN 0 ELSE 1

\* A self-cancelled Interval timer was checked in, and a later notification
\* of it was consumed.
C5_Witness ==
    \E t \in hist.selfc :
        /\ loan[t] = NoCallback
        /\ t \in hist.dropped
        /\ hist.decs[t] = 1

\* ------------------------------------------------------------------------
\* Properties of the connection handler
\* ------------------------------------------------------------------------

\* The connections whose parse phase is over.
Parsed == {c \in Conns : conn[c].st \in {"waiting", "closed"}}

\* Connection c sent a request to the main thread.
Forwarded(c) == reply[c].st # "none"

\* The response the handler writes for a parse error: status and reason.
ErrorBytes(status, msg) == build_response_bytes(status, "text/plain", msg, <<>>)

\* C6: a connection sends its request to the main thread only when
\* parse_request returned a request; one whose parse fails, with whatever
\* error, or times out sends nothing, is never in the request channel, never
\* has a handler run for it, and is closed.
C6_ForwardOnlyParsed ==
    \A c \in Conns :
        LET result == parse_request(conn[c].stream)
        IN  /\ Forwarded(c) => c \in Parsed /\ result.kind = "ok"
            /\ (c \in Parsed /\ result.kind # "ok") =>
                  /\ ~Forwarded(c)
                  /\ \A i \in 1..Len(req_queue) : req_queue[i] # c
                  /\ ~(disp.pc = "handler" /\ disp.conn = c)
                  /\ conn[c].st = "closed"

\* A connection with a malformed request was answered and closed while the
\* main thread went round its loop.
C6_Witness ==
    \E c \in Conns :
        /\ c \in Parsed
        /\ parse_request(conn[c].stream).kind = "err"
        /\ Len(written[c]) = 1
        /\ disp.pc = "recv"

\* The bytes of the first line before its terminator.
ContentBytes(line) == line.len - (IF line.nl THEN 1 ELSE 0)

\* C7: every input whose request line reaches 8192 bytes without a line
\* terminator fails as "Request line too long", is answered 414 and is
\* not forwarded.
C7_RequestLineLimit ==
    \A c \in Parsed :
        LET s == conn[c].stream
        IN  (Len(s.lines) >= 1 /\ ContentBytes(s.lines[1]) >= MAX_REQUEST_LINE) =>
                /\ parse_request(s).msg = MsgRequestLineTooLong
                /\ written[c] = <<ErrorBytes(414, <<"URI", "Too", "Long">>)>>
                /\ ~Forwarded(c)

\* The header lines of a stream: the lines after the first, up to the first
\* blank line.
HeaderEnd(lines) ==
    LET blanks == {i \in 2..Len(lines) : lines[i].toks = <<>>}
    IN  IF blanks = {} THEN Len(lines) + 1
        ELSE CHOOSE i \in blanks : \A k \in blanks : i <= k

HeaderSection(s) == 2..(HeaderEnd(s.lines) - 1)

\* A request with a request line and header lines within the limits, ended
\* by a blank line.
WellFormedHead(s) ==
    /\ Len(s.lines) >= 2
    /\ s.lines[1].nl /\ s.lines[1].len <= MAX_REQUEST_LINE
    /\ Len(s.lines[1].toks) >= 2
    /\ HeaderEnd(s.lines) <= Len(s.lines)
    /\ \A i \in HeaderSection(s) :
          s.lines[i].nl /\ s.lines[i].utf8 /\ s.lines[i].len <= MAX_HEADER_LINE

\* C8: every request whose Content-Length value is an integer above 10485760
\* fails as "Body too large" and is answered 413, and no body buffer above
\* 10485760 bytes is ever allocated.
C8_BodyLimit ==
    \A c \in Conns :
        LET s == conn[c].stream
            lengths == {i \in HeaderSection(s) :
                            s.lines[i].colon /\ s.lines[i].key = ContentLengthKey}
            above(v) == v.kind = "huge" \/ (v.kind = "int" /\ v.n > MAX_BODY_SIZE)
        IN  /\ conn[c].alloc <= MAX_BODY_SIZE
            /\ (/\ c \in Parsed
                /\ WellFormedHead(s)
                /\ Cardinality(lengths) = 1
                /\ \A i \in lengths : above(s.lines[i].val)) =>
                    /\ parse_request(s).msg = MsgBodyTooLarge
                    /\ written[c] = <<ErrorBytes(413, <<"Payload", "Too", "Large">>)>>
                    /\ ~Forwarded(c)

\* C9: every request with more than 100 header lines before the blank line
\* fails as "Too many headers", is answered 431 and is not forwarded.
C9_HeaderCountLimit ==
    \A c \in Parsed :
        LET s == conn[c].stream
        IN  (WellFormedHead(s) /\ Cardinality(HeaderSection(s)) > MAX_HEADER_COUNT) =>
                /\ parse_request(s).msg = MsgTooManyHeaders
                /\ written[c] =
                     <<ErrorBytes(431, <<"Request", "Header", "Fields", "Too", "Large">>)>>
                /\ ~Forwarded(c)

\* The status of each failure of the parse phase.
StatusOf(result) ==
    CASE result.kind = "pending" -> 408
      [] result.msg = MsgRequestLineTooLong -> 414
      [] result.msg = MsgHeaderTooLong -> 431
      [] result.msg = MsgTooManyHeaders -> 431
      [] result.msg = MsgBodyTooLarge -> 413
      [] OTHER -> 400

\* C10: a connection whose parse phase fails is answered by its handler with
\* one response, of the status of the failure: 414 for a request line too
\* long, 431 for a header line too long and for too many headers, 413 for a
\* body too large, 400 for a request line of fewer than two tokens, 408 for
\* the expiry of the timeout and for no parse error; then the handler returns
\* and the connection is closed.
C10_FailureStatus ==
    \A c \in Parsed :
        LET s == conn[c].stream
            result == parse_request(s)
            malformed == /\ Len(s.lines) >= 1
                         /\ s.lines[1].nl /\ s.lines[1].utf8
                         /\ s.lines[1].len <= MAX_REQUEST_LINE
                         /\ Len(s.lines[1].toks) < 2
        IN  /\ result.kind # "ok" =>
                /\ Len(written[c]) = 1
                /\ written[c][1].status = StatusOf(result)
                /\ written[c][1].connection = "close"
                /\ conn[c].st = "closed"
            /\ malformed => result.kind = "err" /\ StatusOf(result) = 400
            /\ result.kind = "err" => StatusOf(result) # 408

\* A connection that sent too many headers was answered 431 and closed.
C10_Witness ==
    \E c \in Parsed :
        /\ parse_request(conn[c].stream).msg = MsgTooManyHeaders
        /\ conn[c].st = "closed"
        /\ Len(written[c]) = 1
        /\ written[c][1].status = 431


\* ------------------------------------------------------------------------
\* Properties of the main Lua event loop
\* ------------------------------------------------------------------------

\* C11: when the call of a route handler ends, by a return or by an error,
\* the main thread puts a response on that request's reply channel, a 500
\* whose body holds the error text when the handler raised, and goes back to
\* the drain step of its loop with the timers, the queues and the route
\* table as they were: the error does not end the loop.
C11_HandlerError ==
    [][ (disp.pc = "handler" /\ disp' # disp) =>
            LET r == reply'[disp.conn]
            IN  /\ disp' = DispAt("drain", 0, NoCallback, 0)
                /\ running' = <<>>
                /\ r.st = "sent"
                /\ r.response.status \in {200, 500}
                /\ r.response.status = 500 =>
                      /\ Contains(r.response.body, HandlerError)
                      /\ r.response.content_type = "text/plain"
                /\ \A c \in Conns : c # disp.conn => reply'[c] = reply[c]
                /\ UNCHANGED <<reg, loan, timer_queue, task, req_queue,
                               route_handlers, acceptor, conn, written>> ]_vars

\* A handler raised, its connection was answered 500 with the error text,
\* and the handler of a later request is running.
C11_Witness ==
    \E c \in Conns :
        /\ Len(written[c]) = 1
        /\ written[c][1].status = 500
        /\ Contains(written[c][1].body, HandlerError)
        /\ disp.pc = "handler"
        /\ disp.conn # c


\* ------------------------------------------------------------------------
\* Properties of the route lookup
\* ------------------------------------------------------------------------

\* The route the lookup gives for method m and path p in the table of the
\* state.
Resolved(m, p) ==
    find_handler(route_handlers,
                 [method |-> m, path |-> p, headers |-> {}, body_len |-> 0])

\* C12: the lookup of (m, p) gives the first registered key of: the exact
\* (m, p), the method's wildcard (m, *), the any-method exact (ALL, p), the
\* any-method wildcard (ALL, *); so with ALL:p registered and no route of
\* the method matching, GET and POST resolve to the same ALL:p; and the
\* handler the main thread calls is the one the lookup gives.
C12_RouteOrder ==
    /\ \A m \in RouteMethods, p \in RoutePaths :
          LET T == route_handlers
              r == Resolved(m, p)
          IN  /\ <<m, p>> \in T => r = <<m, p>>
              /\ (<<m, p>> \notin T /\ <<m, "*">> \in T) => r = <<m, "*">>
              /\ (<<m, p>> \notin T /\ <<m, "*">> \notin T /\ <<"ALL", p>> \in T)
                    => r = <<"ALL", p>>
              /\ (<<m, p>> \notin T /\ <<m, "*">> \notin T /\ <<"ALL", p>> \notin T
                    /\ <<"ALL", "*">> \in T) => r = <<"ALL", "*">>
    /\ \A p \in RoutePaths :
          (/\ <<"ALL", p>> \in route_handlers
           /\ \A m \in {"GET", "POST"} :
                 <<m, p>> \notin route_handlers /\ <<m, "*">> \notin route_handlers)
          => Resolved("GET", p) = <<"ALL", p>> /\ Resolved("POST", p) = <<"ALL", p>>
    /\ disp.pc = "handler" =>
          /\ disp.route = Resolved(conn[disp.conn].request.method,
                                   conn[disp.conn].request.path)
          /\ disp.route \in route_handlers

\* A POST of /a runs the ALL:/a handler in a table that also holds ALL:* and
\* routes of other methods.
C12_Witness ==
    /\ disp.pc = "handler"
    /\ conn[disp.conn].request.method = "POST"
    /\ conn[disp.conn].request.path = "/a"
    /\ disp.route = <<"ALL", "/a">>
    /\ <<"ALL", "*">> \in route_handlers
    /\ <<"GET", "*">> \in route_handlers

\* C13: for a HEAD request of p, with neither HEAD:p nor HEAD:* registered
\* and GET:p registered, the lookup gives GET:p, whatever other routes are
\* registered.
C13_HeadFallback ==
    \A p \in RoutePaths :
        (/\ <<"HEAD", p>> \notin route_handlers
         /\ <<"HEAD", "*">> \notin route_handlers
         /\ <<"GET", p>> \in route_handlers)
        => /\ Resolved("HEAD", p) = <<"GET", p>>
           /\ (disp.pc = "handler" /\ conn[disp.conn].request.method = "HEAD"
                  /\ conn[disp.conn].request.path = p)
                => disp.route = <<"GET", p>>


\* ------------------------------------------------------------------------
\* Properties of the write-back
\* ------------------------------------------------------------------------

\* C14: for every forwarded request of method HEAD, what the handler writes
\* is the status line and headers of the response as for a GET, with the
\* Content-Length of the real body, and no body bytes.
C14_HeadResponse ==
    \A c \in Conns :
        (conn[c].st = "closed" /\ Forwarded(c) /\ conn[c].request.method = "HEAD") =>
            /\ Len(written[c]) = 1
            /\ written[c][1].body = <<>>
            /\ reply[c].st = "sent" =>
                  LET r == reply[c].response
                  IN  written[c][1] =
                        [build_response_bytes_ex(r.status, r.content_type, r.body,
                                                 r.headers, FALSE)
                            EXCEPT !.body = <<>>]


\* C15: a connection handler waiting on a reply channel whose sender was
\* dropped without a response stops waiting, writes the 500 it builds itself
\* and returns: it does not wait forever.
C15_LostReply ==
    \A c \in Conns :
        (conn[c].st = "waiting" /\ reply[c].st = "dropped")
            ~> (/\ conn[c].st = "closed"
                /\ written[c] =
                     <<ErrorBytes(500, <<"Internal", "Server", "Error">>)>>)

\* The receiver was dropped with a request queued, and the connection of the
\* request was answered 500 and closed.
C15_Witness ==
    \E c \in Conns :
        /\ reply[c].st = "dropped"
        /\ conn[c].st = "closed"
        /\ written[c] = <<ErrorBytes(500, <<"Internal", "Server", "Error">>)>>
        /\ disp.pc = "failed"


\* C16: a connection handler that has returned has written exactly one
\* response, whichever way it went: parse error, routing miss, handler
\* error, lost reply, or a send on a request channel whose receiver is gone.
C16_OneResponse ==
    \A c \in Conns : conn[c].st = "closed" => Len(written[c]) = 1


\* ------------------------------------------------------------------------
\* Properties of the main loop
\* ------------------------------------------------------------------------

\* The loop takes a message off the request channel.
TakesRequest == disp.pc = "recv" /\ req_queue # <<>> /\ req_queue' = Tail(req_queue)

\* C17: the loop starts to wait for a request only out of a drain pass that
\* found the timer queue empty, it takes a request only out of that wait,
\* and after the request it is in a drain pass again before the next wait: at
\* most one request between two drain passes.
C17_DrainBeforeRequest ==
    [][ /\ (disp'.pc = "recv" /\ disp.pc # "recv")
            => (disp.pc = "drain" /\ timer_queue = <<>>)
        /\ (disp'.pc = "handler" /\ disp.pc # "handler")
            => (disp.pc = "recv" /\ TakesRequest)
        /\ TakesRequest => disp'.pc \in {"handler", "drain"}
        /\ (disp.pc = "handler" /\ disp'.pc # "handler") => disp'.pc = "drain"
        /\ (Len(req_queue') < Len(req_queue) /\ disp'.pc # "failed")
            => TakesRequest ]_vars

\* A request is being served after a drain pass that invoked a timer
\* callback, and a notification posted since waits for the next pass.
C17_Witness ==
    /\ disp.pc = "handler"
    /\ hist.fired # {}
    /\ timer_queue # <<>>


\* A notification of timer t is in the timer queue.
Notified(t) == \E i \in 1..Len(timer_queue) : timer_queue[i] = t

\* C18: without requests and with callbacks that return, a notification
\* queued for a timer whose entry is present leads to the callback of the
\* timer being invoked, unless the entry goes away first; and the wait on
\* the request channel always ends and leads back to the drain pass.
C18_TimersServed ==
    /\ \A t \in TimerIds :
          (Notified(t) /\ t \in Present(reg))
              ~> ((disp.pc = "timer_cb" /\ disp.timer = t) \/ t \notin Present(reg))
    /\ (disp.pc = "recv") ~> (disp.pc = "drain")

\* The callback of a timer is running on a notification the loop consumed,
\* and the next notification of the timer is queued already.
C18_Witness ==
    \E t \in TimerIds :
        /\ disp.pc = "timer_cb"
        /\ disp.timer = t
        /\ t \in hist.fired
        /\ Notified(t)
        /\ req_queue = <<>>


\* The main thread is inside the loop of server_listen.
InLoop == disp.pc \in {"drain", "timer_cb", "recv", "handler"}

\* The loop is left only out of the wait on the request channel, with no
\* sender left and no message queued.
ExitOnlyOnDisconnect ==
    [][(disp'.pc = "exited" /\ disp.pc # "exited")
          => (disp.pc = "recv" /\ ~SendersAlive /\ req_queue = <<>>)]_vars

\* C19 as stated: the loop exits only on disconnection, never while the
\* accept loop or a connection handler holds a sender, and once no sender is
\* left the loop eventually exits.
C19_Original ==
    /\ ExitOnlyOnDisconnect
    /\ [](SendersAlive => disp.pc # "exited")
    /\ (InLoop /\ ~SendersAlive) ~> (disp.pc = "exited")

\* C19: the loop exits only on disconnection, never while the accept loop or
\* a connection handler holds a sender, and a wait on the request channel
\* made when no sender is left ends the loop. A drain pass that never finds
\* the timer queue empty never reaches that wait.
C19_ExitOnDisconnect ==
    /\ ExitOnlyOnDisconnect
    /\ [](SendersAlive => disp.pc # "exited")
    /\ (disp.pc = "recv" /\ ~SendersAlive) ~> (disp.pc = "exited")

\* The accept loop failed to bind, no connection was ever made, and the loop
\* has exited after having served a timer.
C19_Witness ==
    /\ disp.pc = "exited"
    /\ acceptor = "failed"
    /\ \A c \in Conns : conn[c].st = "unborn"
    /\ hist.fired # {}


\* C20: a timer callback that raises is treated as one that returns. The
\* step out of the callback, whichever way it ended, leads back into the
\* drain pass with the queued notifications in place; a Timeout entry stays
\* spent and the count as it was, and an Interval entry not cancelled
\* meanwhile is back in the registry, counted as before and off loan.
C20_CallbackErrorSwallowed ==
    [][ \A t \in TimerIds :
          (disp.pc = "timer_cb" /\ disp.timer = t /\ disp' # disp)
          => /\ disp'.pc = "drain"
             /\ timer_queue' = timer_queue
             /\ loan'[t] = NoCallback
             /\ reg'.pending = IF disp.cb = "Interval" /\ is_timer_cancelled(reg, t)
                               THEN reg.pending - 1 ELSE reg.pending
             /\ (disp.cb = "Timeout") => t \notin Present(reg')
             /\ (disp.cb = "Interval" /\ ~is_timer_cancelled(reg, t))
                   => (reg'.callbacks[t] = "Interval" /\ has_pending_timers(reg')) ]_vars

\* The callback of a repeating timer raised, and the loop has gone on: the
\* timer is present and counted, and its callback is running once more.
C20_Witness ==
    \E t \in hist.raised :
        /\ disp.pc = "timer_cb"
        /\ disp.timer = t
        /\ disp.cb = "Interval"
        /\ reg.pending > 0
        /\ ~is_timer_cancelled(reg, t)


\* ------------------------------------------------------------------------
\* More properties of the timer registry
\* ------------------------------------------------------------------------

\* C21: cancel_timer is idempotent. In every registry state the loop and
\* the script reach, for every id (present, checked out, spent, never
\* registered), a second call right after a first leaves the map, the marker
\* set and the count as the first left them; and over the life of a timer
\* the count goes down for it once at most.
C21_CancelIdempotent ==
    /\ \A id \in TimerIds :
          cancel_timer(cancel_timer(reg, id), id) = cancel_timer(reg, id)
    /\ \A t \in TimerIds : hist.decs[t] <= 1

\* An Interval timer was cancelled while checked out and a Timeout timer
\* while present; calling cancel_timer on either again changes nothing.
C21_Witness ==
    \E t, u \in hist.cancelled :
        /\ loan[t] = "Interval"
        /\ t \in reg.cancelled
        /\ hist.decs[t] = 0
        /\ u # t
        /\ hist.decs[u] = 1
        /\ u \notin hist.fired
        /\ cancel_timer(reg, t) = reg
        /\ cancel_timer(reg, u) = reg


\* C22: next_timer_id never returns an id twice, to whatever threads, and
\* the id a call returns is greater than the id of every call that had
\* returned when it was made.
C22_UniqueIncreasing ==
    LET log == callers.log
    IN  /\ \A i, j \in 1..Len(log) : i # j => log[i].id # log[j].id
        /\ \A j \in 1..Len(log) : \A i \in 1..log[j].before : log[i].id < log[j].id

\* Two calls overlapped and returned in the order opposite to that of their
\* fetch_add, and a third call made after both returned a greater id.
C22_Witness ==
    LET log == callers.log
    IN  /\ Len(log) >= 3
        /\ log[1].id > log[2].id
        /\ log[2].before = 0
        /\ log[3].before = 2


\* No entry is present or checked out, no notification is queued and every
\* scheduling task has returned.
Quiescent ==
    /\ Present(reg) = {}
    /\ OnLoan = {}
    /\ timer_queue = <<>>
    /\ \A t \in TimerIds : task[t] \in {"none", "stopped"}

\* C23: cancellation markers do not stay: in a quiescent state
\* CANCELLED_TIMERS is empty, whether cancel_timer was called on a present
\* entry, on a checked-out entry or on an id already spent.
C23_MarkersCleared == Quiescent => reg.cancelled = {}


\* ------------------------------------------------------------------------
\* Properties of the responses of handlers
\* ------------------------------------------------------------------------

\* The handler of the run sets a body through the context.
SetsBody == \E i \in 1..Len(script.handler.ops) :
               script.handler.ops[i].op \in {"json", "text", "html", "_body"}

\* The context as the handler leaves it.
CtxLeft == CtxAfter(CtxInit, script.handler.ops)

\* Connection c was answered with what its handler, having returned, left.
Served(c) ==
    /\ reply[c].st = "sent"
    /\ reply[c].response # NotFoundResponse
    /\ reply[c].response # HandlerErrorResponse(HandlerError)

\* The body a returned value stands for.
ReturnBody(result) ==
    CASE result.kind = "string" -> result.s
      [] result.kind = "nil" -> <<>>
      [] OTHER -> value_to_json(result)

\* C24: the body of the response to a request whose handler returned is the
\* value the handler returned (a string as it is, nil as the empty body,
\* any other value serialized) when the handler set no body through the
\* context, and the body it set, whatever it returned, when it set one.
C24_BodyFallback ==
    \A c \in Conns :
        Served(c) =>
            /\ ~SetsBody => reply[c].response.body = ReturnBody(script.handler.result)
            /\ (SetsBody /\ CtxLeft.body.kind = "string")
                  => reply[c].response.body = CtxLeft.body.s


\* The header lines named name, in any letter case, that a reader of the
\* bytes finds before the blank line: the line the framework writes, the
\* lines of the extra headers, and the lines that start after a line break
\* inside the value of an extra header.
WireCount(bytes, name) ==
    (IF name \in {"content-type", "content-length", "connection"} THEN 1 ELSE 0)
    + Cardinality({ j \in 1..Len(bytes.headers) :
                      to_lowercase(bytes.headers[j][1]) = name })
    + Cardinality({ ji \in (1..Len(bytes.headers)) \X (1..4) :
                      LET value == bytes.headers[ji[1]][2]
                          i == ji[2]
                      IN  /\ i < Len(value)
                          /\ value[i] = "\r\n"
                          /\ to_lowercase(value[i + 1]) = name })

\* C25: every response written carries one Content-Type line and one
\* Content-Length line, those of the framework, whatever the handler put in
\* ctx._headers, and the Content-Length is the length of the body of the
\* response.
C25_FrameworkHeaders ==
    \A c \in Conns : \A i \in 1..Len(written[c]) :
        /\ WireCount(written[c][i], "content-type") = 1
        /\ WireCount(written[c][i], "content-length") = 1
        /\ reply[c].st = "sent" =>
              /\ written[c][i].content_length = Len(reply[c].response.body)
              /\ written[c][i].content_type = reply[c].response.content_type


\* The keys of the table are the integers 1..n for an n of 1 at least.
Dense(entries) ==
    /\ entries # <<>>
    /\ {entries[i].key : i \in 1..Len(entries)}
         = {LuaInteger(i) : i \in 1..Len(entries)}

\* C26: a table given to ctx:json is written as a JSON array when its keys
\* are the integers 1..n, n >= 1, and as a JSON object in every other case,
\* integer keys with gaps included.
C26_ArrayOrObject ==
    \A c \in Conns : \A i \in 1..Len(script.handler.ops) :
        LET o == script.handler.ops[i]
        IN  (Served(c) /\ o.op = "json" /\ o.arg.kind = "table") =>
                /\ reply[c].response.body = value_to_json(o.arg)
                /\ reply[c].response.body[1] =
                      IF Dense(o.arg.t) THEN "[" ELSE "{"


\* ------------------------------------------------------------------------
\* Properties of the drain pass
\* ------------------------------------------------------------------------

\* C27: timer callbacks are invoked in the order the notifications were
\* posted, whatever the order of registration. A notification enters the
\* queue at its end, leaves it only from its front, in a drain pass, and the
\* callback a drain pass invokes is that of the notification at the front.
C27_PostOrder ==
    [][ /\ (timer_queue' # timer_queue) =>
              \/ \E t \in TimerIds :
                    task[t] \in Ready /\ timer_queue' = Append(timer_queue, t)
              \/ /\ disp.pc = "drain"
                 /\ timer_queue # <<>>
                 /\ timer_queue' = Tail(timer_queue)
        /\ (disp'.pc = "timer_cb" /\ disp.pc # "timer_cb") =>
              /\ disp.pc = "drain"
              /\ timer_queue # <<>>
              /\ disp'.timer = Head(timer_queue)
              /\ timer_queue' = Tail(timer_queue) ]_vars

\* Timer 1 was registered before timer 2 and posted after it: the callback
\* of timer 2 runs while the notification of timer 1 waits, its entry not
\* yet invoked.
C27_Witness ==
    /\ disp.pc = "timer_cb"
    /\ disp.timer = 2
    /\ timer_queue = <<1>>
    /\ 1 \notin hist.fired
    /\ reg.callbacks[1] # NoCallback


\* C28: the callback of a Timeout timer is invoked once at most. Its
\* invocation takes the entry out of the registry and the count down by
\* one, and it was not invoked before; a notification that finds no entry,
\* a second one for a spent timer included, invokes nothing and leaves the
\* registry and the count as they are.
C28_OneShotOnce ==
    [][ /\ (disp'.pc = "timer_cb" /\ disp.pc # "timer_cb" /\ disp'.cb = "Timeout") =>
              /\ disp'.timer \notin hist.fired
              /\ reg.callbacks[disp'.timer] = "Timeout"
              /\ reg'.callbacks[disp'.timer] = NoCallback
              /\ reg'.pending = reg.pending - 1
        /\ (/\ disp.pc = "drain"
            /\ timer_queue # <<>>
            /\ timer_queue' = Tail(timer_queue)
            /\ reg.callbacks[Head(timer_queue)] = NoCallback) =>
              /\ reg' = reg
              /\ disp' = disp
              /\ running' = running ]_vars

\* A timer not cancelled was invoked, and a later notification of it found
\* no entry: the timer is a spent Timeout that was posted twice.
C28_Witness ==
    \E t \in hist.fired :
        /\ t \in hist.dropped
        /\ t \notin hist.cancelled
        /\ hist.decs[t] = 1
        /\ reg.callbacks[t] = NoCallback


\* ------------------------------------------------------------------------
\* Properties of the order of the steps of a connection
\* ------------------------------------------------------------------------

\* Connection c is in the request channel.
Queued(c) == \E i \in 1..Len(req_queue) : req_queue[i] = c

\* C29: the steps of a connection come in order. Its request is sent when
\* its parse is over and gave a request; the handler runs for it when it was
\* sent and taken off the channel, before anything is written; and bytes are
\* written for a request sent only when the reply channel holds the response
\* or lost its sender.
C29_StepOrder ==
    \A c \in Conns :
        /\ Forwarded(c) => (c \in Parsed /\ conn[c].request # NoRequest)
        /\ Queued(c) => (Forwarded(c) /\ reply[c].st = "open" /\ written[c] = <<>>)
        /\ (disp.pc = "handler" /\ disp.conn = c) =>
              /\ Forwarded(c)
              /\ ~Queued(c)
              /\ reply[c].st = "open"
              /\ written[c] = <<>>
        /\ (Forwarded(c) /\ written[c] # <<>>) =>
              /\ reply[c].st \in {"sent", "dropped"}
              /\ conn[c].st = "closed"

\* A connection went through the four steps: parsed, sent, served by the
\* handler, written.
C29_Witness ==
    \E c \in Conns :
        /\ conn[c].st = "closed"
        /\ reply[c].st = "sent"
        /\ reply[c].response = HandlerResponse
        /\ Len(written[c]) = 1
        /\ written[c][1].status = 200

\* ------------------------------------------------------------------------
\* C30: while a timer callback executes, the main thread holds none of the
\* mutexes of the callback registry, the cancellation set and the timer
\* channel: at every point where the callback runs script code or is about
\* to lock a mutex for a timer it registers or cancels, no mutex is owned by
\* the main thread, so its lock() never waits for its own thread.
\* ------------------------------------------------------------------------

Held(who) == {l \in Mutexes : locks.owner[l] = who}

C30_NoLockInCallback ==
    disp.pc = "timer_cb"
    /\ locks.pc \in ({"call"} \cup {s[1] : s \in AcquireSteps})
    => Held("main") = {}

\* An Interval callback has cancelled its own timer and registered a new
\* one, and is still executing.
C30_Witness ==
    /\ disp.pc = "timer_cb"
    /\ locks.pc = "call"
    /\ locks.cb = "Interval"
    /\ locks.id \in reg.cancelled
    /\ reg.callbacks[MaxTimers] # NoCallback
    /\ reg.next_id = MaxTimers + 1

\* ------------------------------------------------------------------------
\* C31: take_timer_callback on a present Interval entry leaves the pending
\* count and the cancellation set as they were and only takes the entry out
\* (on loan to the caller); on a present Timeout entry it takes the entry
\* out, decrements the pending count by one and removes the marker of id;
\* on an absent id it returns None and changes nothing.
\* ------------------------------------------------------------------------

\* What a checkout of id has to leave, by the entry it finds.
CheckoutEffect(id) ==
    LET cb == reg.callbacks[id]
        out == [reg.callbacks EXCEPT ![id] = NoCallback]
    IN  CASE cb = "Interval" ->
               /\ reg' = [reg EXCEPT !.callbacks = out]
               /\ loan' = [loan EXCEPT ![id] = "Interval"]
          [] cb = "Timeout" ->
               /\ reg' = [reg EXCEPT !.callbacks = out,
                                     !.pending = reg.pending - 1,
                                     !.cancelled = reg.cancelled \ {id}]
               /\ loan' = loan
          [] OTHER -> reg' = reg /\ loan' = loan

C31_CheckoutFrame ==
    /\ [](\A id \in TimerIds :
            reg.callbacks[id] = NoCallback
            => take_timer_callback(reg, id) = [cb |-> NoCallback, reg |-> reg])
    /\ [][\A id \in TimerIds : Checkout(id) => CheckoutEffect(id)]_vars

\* An Interval entry is out on loan while counted, next to a present Timeout
\* entry that carries a cancellation marker.
C31_Witness ==
    \E id \in TimerIds, other \in TimerIds :
        /\ loan[id] = "Interval"
        /\ reg.callbacks[id] = NoCallback
        /\ reg.pending >= 2
        /\ reg.callbacks[other] = "Timeout"
        /\ other \in reg.cancelled

\* ------------------------------------------------------------------------
\* C32: the table the loop resolves requests with is the copy server_listen
\* took when it started: no step of the listen callback, of a route handler,
\* of a timer callback or of the loop changes it, the handler called is
\* always a route of that copy, and a request that copy has no route for is
\* answered 404 also when the script has registered a route for it since.
\* ------------------------------------------------------------------------

C32_RouteTableFixed ==
    /\ [][route_handlers' = route_handlers]_vars
    /\ [](disp.pc = "handler" => disp.route \in route_handlers)
    /\ [](\A c \in Conns :
            /\ written[c] # <<>>
            /\ find_handler(route_handlers, conn[c].request) = NoRoute
            => written[c][1].status = 404)

\* A connection was answered 404 at a moment when the table of the script
\* already held a route for its request.
C32_Witness ==
    \E c \in hist.unrouted :
        /\ written[c] # <<>>
        /\ written[c][1].status = 404
        /\ find_handler(script.routes, conn[c].request) # NoRoute

\* ------------------------------------------------------------------------
\* C33: when the send of a response fails because the connection task is
\* gone, the response is dropped: nothing is written on that connection,
\* the reply channel is not used again, server_listen does not fail, and
\* the step of the failed send leaves the loop at its next timer drain, from
\* which it takes the next request.
\* ------------------------------------------------------------------------

SendFailed(c) == reply[c].st = "failed"

C33_FailedSendDropped ==
    /\ [](\A c \in Conns : SendFailed(c) => written[c] = <<>> /\ disp.pc # "failed")
    /\ [][\A c \in Conns :
            /\ (~SendFailed(c) /\ SendFailed(c)' => disp'.pc = "drain")
            /\ (SendFailed(c) => reply'[c] = reply[c])]_vars

\* The send to a connection that had gone failed, in a handler's return,
\* and the loop has since answered the other connection.
C33_Witness ==
    \E c \in Conns, d \in Conns :
        /\ SendFailed(c)
        /\ find_handler(route_handlers, conn[c].request) # NoRoute
        /\ conn[d].st = "closed"
        /\ written[d] # <<>>
        /\ req_queue = <<>>

\* ------------------------------------------------------------------------
\* C34: whatever the interleaving of a cancel_timer(id) on one thread with
\* the restore_timer_callback(id, entry) of another, once both have
\* returned the entry of id is not in the registry: when a cancel_timer
\* called for a registered id has returned, and no entry of id is checked
\* out and no call on id is in progress, id has no entry (and so is not
\* counted and cannot be taken and invoked again).
\* ------------------------------------------------------------------------

InCall(id) == \E t \in ApiThreads : callers.th[t].id = id

C34_CancelCheckinRace ==
    \A id \in ApiIds :
        /\ id \in callers.done
        /\ loan[id] = NoCallback
        /\ ~InCall(id)
        => reg.callbacks[id] = NoCallback

\* ------------------------------------------------------------------------
\* C35: the pending count is never decremented below zero, in any reachable
\* state, under any interleaving of register_timer, cancel_timer,
\* take_timer_callback, restore_timer_callback and remove_timer_callback
\* calls of several threads, register_timer being called only with an id
\* that is absent. (A negative count of the model is a wrapped usize.)
\* ------------------------------------------------------------------------

C35_NeverNegative == reg.pending >= 0

\* ------------------------------------------------------------------------
\* C36: concurrent calls of register_timer, cancel_timer, is_timer_cancelled,
\* take_timer_callback, restore_timer_callback, remove_timer_callback and
\* try_recv_timer_event never deadlock: no two calls acquire the mutexes in
\* opposite nesting orders, and every call returns.
\* ------------------------------------------------------------------------

\* The mutexes thread t owns.
OwnedBy(t) == {l \in Mutexes : locks.owner[l] = Owner(t)}

\* Thread t is inside Mutex::lock on mutex l.
WaitsFor(t, l) ==
    \E s \in AcquireSteps : callers.th[t].pc = s[1] /\ s[2] = l

\* The only nesting: the guard of the set taken with the guard of the
\* callbacks held. No thread takes a mutex with the guard of the set or of
\* rx held.
NestingOrder ==
    \A t \in ApiThreads, l \in Mutexes :
        WaitsFor(t, l) /\ OwnedBy(t) # {}
            => OwnedBy(t) = {"callbacks"} /\ l = "cancelled"

\* A thread inside a call can execute a statement, or the owner of the
\* mutex it waits for can.
NoDeadlock ==
    \A t \in ApiThreads :
        callers.th[t].pc # "idle" => \E u \in ApiThreads : ENABLED ThreadStep(u)

C36_NoDeadlock ==
    /\ [](NestingOrder /\ NoDeadlock)
    /\ \A t \in ApiThreads :
          (callers.th[t].pc # "idle") ~> (callers.th[t].pc = "idle")

\* One thread waits for the guard of the set inside take_timer_callback,
\* with the guard of the callbacks held, while another thread holds the
\* guard of the set and the first has made a call before.
C36_Witness ==
    \E t, u \in ApiThreads :
        /\ t # u
        /\ callers.th[t].pc = "take_clean_lock"
        /\ locks.owner["callbacks"] = Owner(t)
        /\ locks.owner["cancelled"] = Owner(u)
        /\ callers.th[u].pc \in {"cancel_mark", "is_read", "check", "clean", "rm_clean"}

\* ------------------------------------------------------------------------
\* C39: a request is forwarded to the main Lua thread only if its header
\* section was ended by a blank line read from the stream. A stream that
\* reaches end of input inside the header section, or whose header section
\* is unterminated when the header loop stops, is not forwarded.
\* ------------------------------------------------------------------------

\* The header section of s is ended by a blank line the peer sent, among
\* the lines the header loop reads.
EndedByBlankLine(s) ==
    LET end == HeaderEnd(s.lines)
    IN  /\ end <= Len(s.lines)
        /\ s.lines[end].nl
        /\ end <= MAX_HEADER_COUNT + 2

C39_BlankLineRequired ==
    \A c \in Conns : Forwarded(c) => EndedByBlankLine(conn[c].stream)

\* ------------------------------------------------------------------------
\* C37: with several connections in flight, the response written on a
\* connection is the main thread's response to the request parsed from that
\* connection: a response is sent on the reply channel of a connection only
\* by the step that serves the message of that connection, once, it is the
\* response to that connection's request, and the connection writes it
\* once, whatever the order in which the requests reached the queue.
\* ------------------------------------------------------------------------

\* The responses dispatch_to_lua can build for the request of connection c.
ResponsesTo(c) ==
    IF find_handler(route_handlers, conn[c].request) = NoRoute
    THEN {NotFoundResponse}
    ELSE {dispatch_to_lua(TRUE), dispatch_to_lua(FALSE)}

\* The main thread is serving the message of connection c.
Serving(c) ==
    \/ disp.pc = "handler" /\ disp.conn = c
    \/ disp.pc = "recv" /\ req_queue # <<>> /\ Head(req_queue) = c

OwnResponse ==
    \A c \in Conns :
        /\ reply[c].st = "sent" => reply[c].response \in ResponsesTo(c)
        /\ Len(written[c]) <= 1
        /\ (reply[c].st = "sent" /\ written[c] # <<>>) =>
              written[c] = <<build_response_bytes_ex(
                                reply[c].response.status,
                                reply[c].response.content_type,
                                reply[c].response.body,
                                reply[c].response.headers,
                                conn[c].request.method = "HEAD")>>

SentOnce ==
    \A c \in Conns :
        (reply'[c] # reply[c] /\ reply'[c].st = "sent") =>
            reply[c].st = "open" /\ Serving(c)

C37_OwnResponse == []OwnResponse /\ [][SentOnce]_vars

\* Connection 2 was answered 404 for its own request, and wrote it, while
\* the request of connection 1, of another path, is still in the queue.
C37_Witness ==
    /\ req_queue = <<1>>
    /\ reply[2].st = "sent"
    /\ reply[2].response = NotFoundResponse
    /\ Len(written[2]) = 1
    /\ written[2][1].status = 404
    /\ find_handler(route_handlers, conn[1].request) # NoRoute

\* ------------------------------------------------------------------------
\* C38: after a cancel of a repeating timer, its scheduling task observes
\* the cancellation and stops, so that it posts finitely many further
\* notifications, also when the timer was cancelled from inside its own
\* callback and the cancellation was handled at restore_timer_callback.
\* ------------------------------------------------------------------------

PostsFinite == <>[][\A t \in TimerIds : ~TaskPost(t)]_vars

C40_RequestsAnswered ==
    PostsFinite =>
        \A c \in Conns : (InLoop /\ Queued(c)) ~> (reply[c].st = "sent")

\* A request was answered by the loop after a timer of the script had
\* posted and fired, with another request still in the channel.
C40_Witness ==
    \E c, d \in Conns :
        /\ reply[c].st = "sent"
        /\ Queued(d)
        /\ hist.posted # {}
        /\ hist.fired # {}
        /\ InLoop

====
